---- MODULE Spec2Model ----
(***************************************************************************)
(* A model of the analysis core of the JOC taekwondo / injury-prevention   *)
(* repository:                                                             *)
(*   - TaekwondoAnalyzer.analyze_frame (src/app.py): the per-frame metric  *)
(*     record and the debounced kick detector;                             *)
(*   - the training-load risk engine of                                    *)
(*     src/injury_prevention_system/acwr_calculator.py: calculate_acwr,    *)
(*     get_risk_level, calculate_wellness_score, calculate_combined_risk   *)
(*     and check_alerts, with the tables of config.py.                     *)
(*                                                                         *)
(* Numbers.  Python floats are modelled by scaled integers:                *)
(*   - a kick height before rounding is in hundredths of a percent         *)
(*     (2496 is 24.96); a recorded kick_height is in tenths (250 is 25.0); *)
(*   - an ACWR value is in hundredths (125 is 1.25);                       *)
(*   - a wellness score is in tenths of a point (550 is 55.0).             *)
(***************************************************************************)
EXTENDS Integers, Sequences, FiniteSets

VARIABLES
    \* TaekwondoAnalyzer (src/app.py:1352-1356)
    cooldown,          \* self.cooldown
    detected_kicks,    \* self.detected_kicks
    metrics_history,   \* self.metrics_history
    frame_analysis,    \* self.frame_analysis
    \* the caller of analyze_frame
    clock,             \* index of the next frame fed (frame_idx)
    raw_history,       \* kick height before rounding of each accepted frame
    rejected,          \* number of frames analyze_frame has rejected
    \* the training-load risk engine (acwr_calculator.py)
    training_data,     \* rows (date, training_load) of the athlete's DataFrame
    calculation_date,  \* the date of the last calculate_acwr call
    acwr,              \* an ACWR value, in hundredths
    wellness_entry,    \* the six wellness inputs of a record
    wellness_score,    \* a wellness score, in tenths of a point
    wellness_previous, \* the record scored before wellness_entry, and its score
    risk_level,        \* the result of get_risk_level
    combined,          \* the result of calculate_combined_risk
    alerts,            \* the result of check_alerts
    calls,             \* the functions applied so far
    \* the caller of calculate_score and get_grade (src/app.py:3660-3661)
    score_metrics,     \* the metrics record scored
    score_result,      \* the result of calculate_score: score and feedback
    grade,             \* the result of get_grade on that score
    score_previous,    \* the record scored before score_metrics, and its result
    \* InjuryPreventionSystem (src/app.py:2647-2652)
    injury_risks,            \* self.injury_risks
    fatigue_indicators,      \* self.fatigue_indicators
    baseline_metrics,        \* self.baseline_metrics
    current_metrics_window,  \* self.current_metrics_window
    alert_history,           \* self.alert_history
    \* the caller of the injury prevention system
    pose,              \* what the last frame analysed showed
    system_clock,      \* frame_idx of the next call
    risks,             \* the result of the last analyze_injury_risk
    fatigue,           \* the result of the last analyze_fatigue
    session_summary,   \* the result of get_session_summary
    \* AutoKickDetector (src/app.py:2243-2246)
    frame_history,     \* self.frame_history
    detection_history, \* self.detection_history
    \* the caller of detect_kick_type
    kick_landmarks,    \* the landmarks of the last frame
    kick_result,       \* the result of the last detect_kick_type
    \* TrajectoryTracker (src/app.py:1776-1778)
    foot_positions,    \* self.foot_positions
    \* the caller of the rolling buffers
    appended,          \* what was appended to each buffer, in order
    \* the caller of analyze_frame on the landmarks of a pose
    frame_landmarks,   \* the landmarks of the last frame fed
    returned,          \* what the last analyze_frame returned
    \* two TaekwondoAnalyzer objects
    analyzers,         \* the attributes of each object
    fed                \* the frames fed to each object, in order

analyzerVars == <<cooldown, detected_kicks, metrics_history, frame_analysis>>
frameVars == <<cooldown, detected_kicks, metrics_history, frame_analysis,
               clock, raw_history, rejected>>
resultVars == <<acwr, risk_level, combined, alerts, calls>>
loadVars == <<training_data, calculation_date, acwr, wellness_entry, wellness_score,
              wellness_previous, risk_level, combined, alerts, calls>>
scorerVars == <<score_metrics, score_result, grade, score_previous>>
fatigueVars == <<baseline_metrics, current_metrics_window, fatigue_indicators>>
injuryVars == <<injury_risks, fatigue_indicators, baseline_metrics, current_metrics_window,
                alert_history, pose, system_clock, risks, fatigue, session_summary>>
classifierVars == <<frame_history, detection_history, kick_landmarks, kick_result>>
trackerVars == <<foot_positions, appended>>
landmarkVars == <<frame_landmarks, returned>>
pairVars == <<analyzers, fed>>
otherVars == <<trackerVars, landmarkVars, pairVars>>
appVars == <<scorerVars, injuryVars, classifierVars, otherVars>>
vars == <<frameVars, loadVars, appVars>>

(***************************************************************************)
(* Bounds of the model.                                                    *)
(***************************************************************************)
MaxFrames == 12        \* frames fed in a free stream
MaxRejected == 1       \* rejected frames in a stream
MaxSpikeFrames == 17   \* frames fed in a single-spike stream
MaxRecords == 2        \* rows of training_data
MaxAcwr == 260         \* largest ACWR (hundredths) below the catch-all values
MaxInjuryFrames == 2   \* frames of a clip analysed for injury risk
MaxSessionFrames == 6  \* risk events of a session
MaxFatigueFrames == 12 \* samples analysed for fatigue
DrillLength == 12      \* samples of the drill before a session
MaxFootPositions == 10 \* foot positions recorded by the kick-type detector
MaxAppends == 32       \* entries appended to a rolling buffer
MaxLandmarkFrames == 3 \* frames of landmarks fed to analyze_frame
MaxPairFrames == 3     \* frames fed to each of two analyzers

(***************************************************************************)
(* Helpers.                                                                *)
(***************************************************************************)
Last(s) == s[Len(s)]

Range(s) == {s[i] : i \in 1..Len(s)}

Abs(x) == IF x < 0 THEN -x ELSE x

\* round(x, 1) of a height given in hundredths, as a number of tenths.  The
\* heights fed to the model are never exactly halfway between two tenths
\* (Python rounds such a float by its binary expansion: round(24.95, 1) is
\* 24.9 and round(25.05, 1) is 25.1).
Round1(h) == (h + 5) \div 10

\* The integer nearest to n / d (d > 0), a tie going to the even one: Python's
\* round() on a value that is exact.
RoundHalfEven(n, d) ==
    LET q == n \div d
        r == n % d
    IN  IF 2 * r < d THEN q
        ELSE IF 2 * r > d THEN q + 1
        ELSE IF q % 2 = 0 THEN q ELSE q + 1

(***************************************************************************)
(* TaekwondoAnalyzer.analyze_frame                                         *)
(***************************************************************************)
KickThreshold == 25     \* kick_height >= 25
CooldownFrames == 10    \* self.cooldown = 10

\* The landmarks analyze_frame requires: which of the hip and ankle keypoints
\* get_landmark returns (visibility >= 0.5).
Landmarks == [l_hip : BOOLEAN, r_hip : BOOLEAN, l_ankle : BOOLEAN, r_ankle : BOOLEAN]

\* The early returns with a fault: the test of the ankles is missing.
RejectsOnHipsOnly(lm) == ~lm.l_hip \/ ~lm.r_hip

\* The two early returns on missing keypoints.
Rejects(lm) == (~lm.l_hip \/ ~lm.r_hip) \/ (~lm.l_ankle /\ ~lm.r_ankle)

\* Heights (before rounding, in hundredths) the geometry may produce for a frame.
RawHeights == {2496, 2500}

\* The metrics dict of one frame.
Metrics(frame_idx, h) == [frame_idx |-> frame_idx, kick_height |-> Round1(h)]

\* KickData with a fault: the kick's number is written over its frame index.
KickDataNumberedFrame(metrics, kicks) ==
    [frame_idx |-> Len(kicks) + 1, kick_height |-> metrics.kick_height,
     kick_number |-> Len(kicks) + 1]

\* kick_data = metrics.copy(); kick_data['kick_number'] = len(detected_kicks) + 1
KickData(metrics, kicks) ==
    [frame_idx |-> metrics.frame_idx, kick_height |-> metrics.kick_height,
     kick_number |-> Len(kicks) + 1]

\* Fires with a fault: the cooldown ignored; the recorded height tested.
FiresIgnoringCooldown(h, cd) == h >= KickThreshold * 100

FiresOnRecordedHeight(h, cd) == Round1(h) >= KickThreshold * 10 /\ cd = 0

\* if kick_height >= 25 and self.cooldown == 0  (on the height before rounding)
Fires(h, cd) == h >= KickThreshold * 100 /\ cd = 0

\* CooldownAfter with a fault: the decrement is skipped on the frame of a kick.
CooldownAfterSkippingDecrement(h, cd) ==
    IF Fires(h, cd) THEN CooldownFrames ELSE IF cd > 0 THEN cd - 1 ELSE cd

\* The cooldown after the frame: set to 10 on a kick, then decremented at once.
CooldownAfter(h, cd) ==
    LET c1 == IF Fires(h, cd) THEN CooldownFrames ELSE cd
    IN  IF c1 > 0 THEN c1 - 1 ELSE c1

\* One call analyze_frame(landmarks, frame_time, frame_idx) with frame_idx = clock.
AnalyzeFrame(lm, h) ==
    /\ clock' = clock + 1
    /\ IF Rejects(lm)
       THEN /\ rejected' = rejected + 1
            /\ UNCHANGED <<analyzerVars, raw_history>>
       ELSE LET metrics == Metrics(clock, h)
            IN  /\ detected_kicks' =
                      IF Fires(h, cooldown)
                      THEN Append(detected_kicks, KickData(metrics, detected_kicks))
                      ELSE detected_kicks
                /\ cooldown' = CooldownAfter(h, cooldown)
                /\ metrics_history' = Append(metrics_history, metrics)
                /\ frame_analysis' = Append(frame_analysis, metrics)
                /\ raw_history' = Append(raw_history, h)
                /\ UNCHANGED rejected

(***************************************************************************)
(* calculate_acwr                                                          *)
(***************************************************************************)
ACUTE_PERIOD_DAYS == 7
CHRONIC_PERIOD_DAYS == 28

\* The sum of training_load over the first n rows of df dated in (start, end]:
\* df[(df['date'] > start) & (df['date'] <= end)]['training_load'].sum()
RECURSIVE SumLoad(_, _, _, _)
SumLoad(df, start, end, n) ==
    IF n = 0 THEN 0
    ELSE SumLoad(df, start, end, n - 1)
         + (IF df[n].date > start /\ df[n].date <= end THEN df[n].training_load ELSE 0)

WindowLoad(df, start, end) == SumLoad(df, start, end, Len(df))

\* acute_load with a fault: >= acute_start, the day 7 days earlier is summed too.
acute_load_from_start(df, date) == WindowLoad(df, date - ACUTE_PERIOD_DAYS - 1, date)

acute_load(df, date) == WindowLoad(df, date - ACUTE_PERIOD_DAYS, date)

\* chronic_load with a fault: the chronic window ends where the acute one starts.
chronic_load_before_acute(df, date) ==
    WindowLoad(df, date - CHRONIC_PERIOD_DAYS, date - ACUTE_PERIOD_DAYS)

chronic_load(df, date) == WindowLoad(df, date - CHRONIC_PERIOD_DAYS, date)

\* round(acute_avg / chronic_avg, 2) in hundredths, for the window sums a and
\* c # 0: acute_avg = a / 7 and chronic_avg = c / 28.
RoundedRatio(a, c) ==
    LET n == 100 * a * CHRONIC_PERIOD_DAYS
        d == c * ACUTE_PERIOD_DAYS
    IN  IF d > 0 THEN RoundHalfEven(n, d) ELSE RoundHalfEven(-n, -d)

\* AcwrOfLoads with a fault: a zero chronic load answered by 0.
AcwrOfLoadsZero(a, c) ==
    IF c = 0 THEN 0 ELSE RoundedRatio(a, c)

\* The result for the two window sums (the averages are zero exactly when
\* the sums are).
AcwrOfLoads(a, c) ==
    IF c = 0
    THEN IF a = 0 THEN 100 ELSE 200
    ELSE RoundedRatio(a, c)

calculate_acwr(df, date) == AcwrOfLoads(acute_load(df, date), chronic_load(df, date))

(***************************************************************************)
(* get_risk_level and RISK_ZONES                                           *)
(***************************************************************************)
\* RISK_ZONES in the order of the dict, min and max in hundredths.
RISK_ZONES ==
    << [zone |-> "undertrained", min |-> 0,   max |-> 80,    label |-> "Undertrained"],
       [zone |-> "optimal",      min |-> 80,  max |-> 130,   label |-> "Optimal Zone"],
       [zone |-> "high_risk",    min |-> 130, max |-> 150,   label |-> "Elevated Risk"],
       [zone |-> "danger",       min |-> 150, max |-> 200,   label |-> "High Risk"],
       [zone |-> "critical",     min |-> 200, max |-> 99900, label |-> "Critical Risk"] >>

\* InZone with a fault: the interval closed at its max.
InZoneClosed(a, zone_info) == zone_info.min <= a /\ a <= zone_info.max

\* zone_info['min'] <= acwr < zone_info['max']
InZone(a, zone_info) == zone_info.min <= a /\ a < zone_info.max

\* The first zone of RISK_ZONES that holds a, and critical when none does.
get_risk_level(a) ==
    LET hits == {i \in DOMAIN RISK_ZONES : InZone(a, RISK_ZONES[i])}
    IN  IF hits # {}
        THEN LET i == CHOOSE j \in hits : \A k \in hits : j <= k
             IN  [zone |-> RISK_ZONES[i].zone, label |-> RISK_ZONES[i].label]
        ELSE [zone |-> "critical", label |-> "Critical Risk"]

(***************************************************************************)
(* calculate_wellness_score and WELLNESS_WEIGHTS                           *)
(***************************************************************************)
WellnessMetrics ==
    {"sleep_quality", "fatigue", "muscle_soreness", "stress", "mood", "motivation"}

\* WELLNESS_WEIGHTS, in hundredths.
WELLNESS_WEIGHTS ==
    [sleep_quality |-> 25, fatigue |-> 20, muscle_soreness |-> 20,
     stress |-> 15, mood |-> 10, motivation |-> 10]

\* Normalized with a fault: fatigue not inverted.
NormalizedFatigueAsIs(e) ==
    [sleep_quality |-> e.sleep_quality, fatigue |-> e.fatigue,
     muscle_soreness |-> 11 - e.muscle_soreness, stress |-> 11 - e.stress,
     mood |-> e.mood, motivation |-> e.motivation]

\* normalized: fatigue, soreness and stress are inverted as 11 - x.
Normalized(e) ==
    [sleep_quality |-> e.sleep_quality, fatigue |-> 11 - e.fatigue,
     muscle_soreness |-> 11 - e.muscle_soreness, stress |-> 11 - e.stress,
     mood |-> e.mood, motivation |-> e.motivation]

RECURSIVE WeightedSum(_, _)
WeightedSum(n, ms) ==
    IF ms = {} THEN 0
    ELSE LET m == CHOOSE x \in ms : TRUE
         IN  n[m] * WELLNESS_WEIGHTS[m] + WeightedSum(n, ms \ {m})

\* calculate_wellness_score with a fault: round(score, 1), the scaling by 10
\* is missing.
calculate_wellness_score_unscaled(e) ==
    RoundHalfEven(WeightedSum(Normalized(e), WellnessMetrics) * 10, 100)

\* round(score * 10, 1) in tenths, score being WeightedSum / 100.
calculate_wellness_score(e) ==
    RoundHalfEven(WeightedSum(Normalized(e), WellnessMetrics) * 10 * 10, 100)

(***************************************************************************)
(* calculate_combined_risk                                                 *)
(***************************************************************************)
\* The base ACWR risk of an ACWR value a (hundredths).
AcwrRisk(a) ==
    IF a < 80 THEN 30
    ELSE IF a <= 130 THEN 10
    ELSE IF a <= 150 THEN 50
    ELSE IF a <= 200 THEN 75
    ELSE 95

\* The status of a combined risk given in hundredths of a point.
CombinedStatus(c100) ==
    IF c100 < 2500 THEN "Low Risk"
    ELSE IF c100 < 4500 THEN "Moderate Risk"
    ELSE IF c100 < 6500 THEN "Elevated Risk"
    ELSE IF c100 < 8000 THEN "High Risk"
    ELSE "Critical Risk"

\* a in hundredths, w in tenths; combined_risk and wellness_risk in tenths.
calculate_combined_risk(a, w) ==
    LET acwr_risk == AcwrRisk(a)
        wellness_risk == 1000 - w
        c100 == 60 * acwr_risk + 4 * wellness_risk
    IN  [acwr_risk |-> acwr_risk,
         wellness_risk |-> wellness_risk,
         combined_risk |-> RoundHalfEven(c100, 10),
         status |-> CombinedStatus(c100)]

(***************************************************************************)
(* check_alerts and ALERT_THRESHOLDS                                       *)
(***************************************************************************)
AcwrCritical == 200       \* acwr >= 2.0
AcwrDanger == 150         \* ALERT_THRESHOLDS['acwr_danger'] = 1.5
AcwrWarning == 130        \* ALERT_THRESHOLDS['acwr_warning'] = 1.3
WellnessWarning == 50     \* ALERT_THRESHOLDS['wellness_warning'] = 5.0, in tenths

\* An alert: its type and the rule that raised it (the head of its message).
Alert(type, rule) == [type |-> type, rule |-> rule]

\* AcwrAlerts with a fault: critical only above 2.0; the three rules independent.
AcwrAlertsAboveCritical(a) ==
    IF a > AcwrCritical THEN <<Alert("critical", "ACWR")>>
    ELSE IF a >= AcwrDanger THEN <<Alert("warning", "ACWR")>>
    ELSE IF a >= AcwrWarning THEN <<Alert("caution", "ACWR")>>
    ELSE <<>>

AcwrAlertsIndependent(a) ==
    (IF a >= AcwrCritical THEN <<Alert("critical", "ACWR")>> ELSE <<>>)
    \o (IF a >= AcwrDanger THEN <<Alert("warning", "ACWR")>> ELSE <<>>)
    \o (IF a >= AcwrWarning THEN <<Alert("caution", "ACWR")>> ELSE <<>>)

\* The if / elif / elif chain on the ACWR.
AcwrAlerts(a) ==
    IF a >= AcwrCritical THEN <<Alert("critical", "ACWR")>>
    ELSE IF a >= AcwrDanger THEN <<Alert("warning", "ACWR")>>
    ELSE IF a >= AcwrWarning THEN <<Alert("caution", "ACWR")>>
    ELSE <<>>

\* if wellness_score < ALERT_THRESHOLDS['wellness_warning']
WellnessAlerts(w) ==
    IF w < WellnessWarning THEN <<Alert("warning", "LOW WELLNESS")>> ELSE <<>>

check_alerts(a, w) == AcwrAlerts(a) \o WellnessAlerts(w)

(***************************************************************************)
(* TaekwondoAnalyzer.calculate_score and get_grade                         *)
(*                                                                         *)
(* A metrics record is a function from its keys to numbers in tenths (the  *)
(* record of analyze_frame holds round(x, 1) values): 1700 is 170.0.       *)
(***************************************************************************)
Tenths(n) == n * 10

\* metrics.get(key, 0)
Get(metrics, key) == IF key \in DOMAIN metrics THEN metrics[key] ELSE 0

Band(points, text, tag) == [points |-> points, feedback |-> <<<<text, tag>>>>]

\* The knee band with a fault: the top award only above 160.
KneeBandStrict(knee) ==
    IF knee > Tenths(160) THEN Band(25, "Full leg extension - maximum power", "success")
    ELSE IF knee >= Tenths(140) THEN Band(20, "Good extension - aim for full lock", "info")
    ELSE IF knee >= Tenths(120) THEN Band(15, "Moderate extension - extend further", "warning")
    ELSE Band(10, "Bent knee - focus on extension", "warning")

\* Knee angle (25 pts)
KneeBand(knee) ==
    IF knee >= Tenths(160) THEN Band(25, "Full leg extension - maximum power", "success")
    ELSE IF knee >= Tenths(140) THEN Band(20, "Good extension - aim for full lock", "info")
    ELSE IF knee >= Tenths(120) THEN Band(15, "Moderate extension - extend further", "warning")
    ELSE Band(10, "Bent knee - focus on extension", "warning")

\* Height (30 pts)
HeightBand(height) ==
    IF height >= Tenths(70) THEN Band(30, "Head level - competition standard", "success")
    ELSE IF height >= Tenths(50) THEN Band(22, "Chest level - good target area", "info")
    ELSE IF height >= Tenths(30) THEN Band(15, "Body level - increase flexibility", "warning")
    ELSE Band(8, "Low kick - work on hip mobility", "warning")

\* Hip flexion (20 pts)
HipBand(hip) ==
    IF hip >= Tenths(110) THEN Band(20, "Excellent hip chamber", "success")
    ELSE IF hip >= Tenths(90) THEN Band(15, "Good chamber position", "info")
    ELSE Band(10, "Improve knee chamber", "warning")

\* Support leg (15 pts)
SupportBand(support) ==
    IF Tenths(160) <= support /\ support <= Tenths(180)
    THEN Band(15, "Stable base - excellent balance", "success")
    ELSE IF support >= Tenths(140) THEN Band(10, "Good stability", "info")
    ELSE Band(5, "Straighten support leg", "warning")

\* The visibility band with a fault: it appends a feedback entry as well.
VisibilityBandWithFeedback(vis) ==
    IF vis >= Tenths(80) THEN Band(10, "Clear view", "success")
    ELSE IF vis >= Tenths(60) THEN Band(7, "Partial view", "info")
    ELSE Band(4, "Poor view", "warning")

\* Visibility bonus (10 pts): points only, no feedback entry.
VisibilityBand(vis) ==
    [points |-> IF vis >= Tenths(80) THEN 10 ELSE IF vis >= Tenths(60) THEN 7 ELSE 4,
     feedback |-> <<>>]

\* The bands in the order calculate_score goes through them.
ScoreBands(metrics) ==
    <<KneeBand(Get(metrics, "knee_angle")),
      HeightBand(Get(metrics, "kick_height")),
      HipBand(Get(metrics, "hip_flexion")),
      SupportBand(Get(metrics, "support_knee")),
      VisibilityBand(Get(metrics, "visibility"))>>

Min(a, b) == IF a <= b THEN a ELSE b

\* The score and the feedback after the first n bands.
RECURSIVE ScoreAfter(_, _)
ScoreAfter(bands, n) ==
    IF n = 0 THEN [score |-> 0, feedback |-> <<>>]
    ELSE LET acc == ScoreAfter(bands, n - 1)
         IN  [score |-> acc.score + bands[n].points,
              feedback |-> acc.feedback \o bands[n].feedback]

\* min(100, score)
ScoreTotal(total) == Min(100, total)

calculate_score(metrics) ==
    IF DOMAIN metrics = {} THEN [score |-> 0, feedback |-> <<>>]
    ELSE LET acc == ScoreAfter(ScoreBands(metrics), 5)
         IN  [score |-> ScoreTotal(acc.score), feedback |-> acc.feedback]

\* The grades table, in the order get_grade scans it.
Grades ==
    <<[threshold |-> 90, grade |-> "A+", text |-> "Elite"],
      [threshold |-> 85, grade |-> "A", text |-> "Excellent"],
      [threshold |-> 80, grade |-> "A-", text |-> "Very Good"],
      [threshold |-> 75, grade |-> "B+", text |-> "Good"],
      [threshold |-> 70, grade |-> "B", text |-> "Above Average"],
      [threshold |-> 65, grade |-> "B-", text |-> "Fair"],
      [threshold |-> 60, grade |-> "C+", text |-> "Average"],
      [threshold |-> 55, grade |-> "C", text |-> "Below Average"],
      [threshold |-> 0, grade |-> "D", text |-> "Needs Work"]>>

\* The first row of the table from row i on whose threshold the score reaches;
\* the fall-through return when there is none.
RECURSIVE GradeFrom(_, _)
GradeFrom(score, i) ==
    IF i > Len(Grades) THEN [grade |-> "D", text |-> "Needs Work"]
    ELSE IF score >= Grades[i].threshold
         THEN [grade |-> Grades[i].grade, text |-> Grades[i].text]
         ELSE GradeFrom(score, i + 1)

\* get_grade with a fault: the scan starts at the second row.
GetGradeFromSecondRow(score) == GradeFrom(score, 2)

get_grade(score) == GradeFrom(score, 1)

(***************************************************************************)
(* InjuryPreventionSystem.analyze_injury_risk                              *)
(*                                                                         *)
(* A pose is what the function measures on the landmarks of a frame: the   *)
(* set of landmarks _get_landmark_pos returns a position for, the valgus   *)
(* angle and the knee angle of each leg, the normalized hip drop and the   *)
(* trunk lean, all before rounding and in hundredths (1800 is 18.00).  A   *)
(* measure is read only when the landmarks it is computed from are in the  *)
(* set.                                                                    *)
(***************************************************************************)
Hundredths(n) == n * 100

SAFE_RANGES ==
    [knee_valgus_angle |-> [max |-> 10, danger |-> 15],
     hip_drop |-> [max |-> 10, danger |-> 15],
     trunk_lean |-> [max |-> 20, danger |-> 30]]

HyperextensionAngle == 175    \* left_knee_angle > 175

\* all([hip, knee, ankle]) of a leg
LegSeen(landmarks, leg) ==
    {leg \o "_hip", leg \o "_knee", leg \o "_ankle"} \subseteq landmarks.visible

HipsSeen(landmarks) == {"left_hip", "right_hip"} \subseteq landmarks.visible

ShouldersSeen(landmarks) == {"left_shoulder", "right_shoulder"} \subseteq landmarks.visible

\* An alert together with what it adds to risk_score.
Finding(alert, points) == [alert |-> alert, points |-> points]

ValgusAlert(severity, message, leg) ==
    [type |-> "KNEE_VALGUS", severity |-> severity, message |-> message, leg |-> leg]

AdviceAlert(type, severity, message, recommendation) ==
    [type |-> type, severity |-> severity, message |-> message,
     recommendation |-> recommendation]

\* The valgus check with a fault: the two tiers are tested one after the other.
ValgusFindingsBothTiers(valgus, leg) ==
    (IF Abs(valgus) > Hundredths(SAFE_RANGES.knee_valgus_angle.danger)
     THEN <<Finding(ValgusAlert("HIGH", leg \o " knee valgus - ACL injury risk!", leg), 40)>>
     ELSE <<>>)
    \o (IF Abs(valgus) > Hundredths(SAFE_RANGES.knee_valgus_angle.max)
        THEN <<Finding(ValgusAlert("MEDIUM", leg \o " knee tracking inward", leg), 20)>>
        ELSE <<>>)

\* The valgus check of one leg.
ValgusFindings(valgus, leg) ==
    IF Abs(valgus) > Hundredths(SAFE_RANGES.knee_valgus_angle.danger)
    THEN <<Finding(ValgusAlert("HIGH", leg \o " knee valgus - ACL injury risk!", leg), 40)>>
    ELSE IF Abs(valgus) > Hundredths(SAFE_RANGES.knee_valgus_angle.max)
    THEN <<Finding(ValgusAlert("MEDIUM", leg \o " knee tracking inward", leg), 20)>>
    ELSE <<>>

KneeValgusFindings(landmarks) ==
    (IF LegSeen(landmarks, "left") THEN ValgusFindings(landmarks.left_valgus, "left") ELSE <<>>)
    \o (IF LegSeen(landmarks, "right") THEN ValgusFindings(landmarks.right_valgus, "right") ELSE <<>>)

HipDropFindings(landmarks) ==
    IF ~HipsSeen(landmarks) THEN <<>>
    ELSE IF landmarks.hip_drop > Hundredths(SAFE_RANGES.hip_drop.danger)
    THEN <<Finding(AdviceAlert("HIP_DROP", "HIGH", "Excessive hip drop - weak gluteus medius",
                               "Strengthen hip abductors"), 25)>>
    ELSE IF landmarks.hip_drop > Hundredths(SAFE_RANGES.hip_drop.max)
    THEN <<Finding(AdviceAlert("HIP_DROP", "MEDIUM", "Hip drop detected",
                               "Focus on hip stability"), 10)>>
    ELSE <<>>

TrunkLeanFindings(landmarks) ==
    IF ShouldersSeen(landmarks) /\ HipsSeen(landmarks)
       /\ Abs(landmarks.trunk_lean) > Hundredths(SAFE_RANGES.trunk_lean.danger)
    THEN <<Finding(AdviceAlert("TRUNK_LEAN", "HIGH", "Excessive trunk lean - balance risk",
                               "Core strengthening needed"), 20)>>
    ELSE <<>>

HyperextensionOf(knee_angle, leg) ==
    IF knee_angle > Hundredths(HyperextensionAngle)
    THEN <<Finding(AdviceAlert("HYPEREXTENSION", "HIGH", leg \o " knee hyperextension",
                               "Avoid locking knee joint"), 30)>>
    ELSE <<>>

HyperextensionFindings(landmarks) ==
    (IF LegSeen(landmarks, "left") THEN HyperextensionOf(landmarks.left_knee_angle, "left") ELSE <<>>)
    \o (IF LegSeen(landmarks, "right") THEN HyperextensionOf(landmarks.right_knee_angle, "right")
        ELSE <<>>)

\* The findings in the order the four checks make them.
Findings(landmarks) ==
    KneeValgusFindings(landmarks) \o HipDropFindings(landmarks) \o TrunkLeanFindings(landmarks)
    \o HyperextensionFindings(landmarks)

RECURSIVE SumPoints(_, _)
SumPoints(findings, n) ==
    IF n = 0 THEN 0 ELSE SumPoints(findings, n - 1) + findings[n].points

\* The risk level with a fault: high only above 50.
RiskLevelAbove(risk_score) ==
    IF risk_score > 50 THEN "high" ELSE IF risk_score >= 25 THEN "medium" ELSE "low"

RiskLevelOf(risk_score) ==
    IF risk_score >= 50 THEN "high" ELSE IF risk_score >= 25 THEN "medium" ELSE "low"

\* The risks record analyze_injury_risk returns.
analyze_injury_risk(landmarks, frame_idx) ==
    LET findings == Findings(landmarks)
        risk_score == SumPoints(findings, Len(findings))
    IN  [frame |-> frame_idx,
         alerts |-> [i \in 1..Len(findings) |-> findings[i].alert],
         risk_level |-> RiskLevelOf(risk_score),
         overall_risk_score |-> Min(100, risk_score)]

(***************************************************************************)
(* InjuryPreventionSystem.get_session_summary                              *)
(***************************************************************************)
\* The number of recorded risk events of one risk level.
LevelCount(s, level) == Cardinality({i \in 1..Len(s) : s[i].risk_level = level})

\* alert_types: the count of every alert type of the history.
AlertBreakdown(history) ==
    [t \in {history[i].type : i \in 1..Len(history)} |->
        Cardinality({i \in 1..Len(history) : history[i].type = t})]

\* The index of the first alert of a type in the history: the place of the type
\* in the dict alert_types.
FirstAt(history, t) == CHOOSE i \in 1..Len(history) :
    history[i].type = t /\ \A j \in 1..(i - 1) : history[j].type # t

NoRisk == "None"

\* max(alert_types, key=alert_types.get): the first key of the largest count.
MostCommonRisk(history) ==
    LET alert_types == AlertBreakdown(history)
    IN  IF DOMAIN alert_types = {} THEN NoRisk
        ELSE CHOOSE t \in DOMAIN alert_types :
                 \A u \in DOMAIN alert_types :
                     \/ alert_types[u] < alert_types[t]
                     \/ alert_types[u] = alert_types[t]
                        /\ FirstAt(history, t) <= FirstAt(history, u)

HighRiskEvents == 5      \* high_risk_count > 5
FrequentAlerts == 3      \* alert_types[...] > 3
FatigueEvents == 2       \* len(self.fatigue_indicators) > 2

\* The texts of _get_recommendation.
RecHighRisk ==
    "HIGH RISK SESSION - Multiple dangerous biomechanics detected. Recommend technique review with coach."
RecKneeValgus ==
    "Focus on hip strengthening exercises. Knee valgus indicates weak gluteus medius."
RecHipDrop ==
    "Add single-leg stability exercises. Hip drop affects kick power and increases injury risk."
RecTrunkLean ==
    "Core strengthening recommended. Excessive trunk lean affects balance and technique."
RecHyperextension ==
    "Avoid locking knee joint. Practice maintaining slight knee bend on support leg."
RecFatigue ==
    "Fatigue detected multiple times. Consider shorter training intervals with adequate rest."
RecGoodSession ==
    "Good session! Continue maintaining proper form."

\* _get_recommendation with a fault: an alert type counts as frequent from three
\* alerts on.
GetRecommendationFromThree(alert_types, high_risk_count, fatigue_count) ==
    IF high_risk_count > HighRiskEvents THEN RecHighRisk
    ELSE IF "KNEE_VALGUS" \in DOMAIN alert_types /\ alert_types["KNEE_VALGUS"] >= FrequentAlerts
    THEN RecKneeValgus
    ELSE IF "HIP_DROP" \in DOMAIN alert_types /\ alert_types["HIP_DROP"] >= FrequentAlerts
    THEN RecHipDrop
    ELSE IF "TRUNK_LEAN" \in DOMAIN alert_types THEN RecTrunkLean
    ELSE IF "HYPEREXTENSION" \in DOMAIN alert_types THEN RecHyperextension
    ELSE IF fatigue_count > FatigueEvents THEN RecFatigue
    ELSE RecGoodSession

\* _get_recommendation
GetRecommendation(alert_types, high_risk_count, fatigue_count) ==
    IF high_risk_count > HighRiskEvents
    THEN RecHighRisk
    ELSE IF "KNEE_VALGUS" \in DOMAIN alert_types /\ alert_types["KNEE_VALGUS"] > FrequentAlerts
    THEN RecKneeValgus
    ELSE IF "HIP_DROP" \in DOMAIN alert_types /\ alert_types["HIP_DROP"] > FrequentAlerts
    THEN RecHipDrop
    ELSE IF "TRUNK_LEAN" \in DOMAIN alert_types
    THEN RecTrunkLean
    ELSE IF "HYPEREXTENSION" \in DOMAIN alert_types
    THEN RecHyperextension
    ELSE IF fatigue_count > FatigueEvents
    THEN RecFatigue
    ELSE RecGoodSession

get_session_summary(risk_events, history, fatigue_events) ==
    LET high_risk_count == LevelCount(risk_events, "high")
        alert_types == AlertBreakdown(history)
    IN  [total_risk_events |-> Len(risk_events),
         high_risk_events |-> high_risk_count,
         medium_risk_events |-> LevelCount(risk_events, "medium"),
         fatigue_events |-> Len(fatigue_events),
         alert_breakdown |-> alert_types,
         most_common_risk |-> MostCommonRisk(history),
         recommendation |-> GetRecommendation(alert_types, high_risk_count,
                                              Len(fatigue_events))]

(***************************************************************************)
(* InjuryPreventionSystem.analyze_fatigue                                  *)
(*                                                                         *)
(* A sample is a metrics record: its score is a number of points, its      *)
(* kick_height and support_knee are in tenths.  No baseline (None) and an  *)
(* empty baseline are the same to analyze_fatigue: both are NoMetrics.     *)
(***************************************************************************)
WindowLen == 30          \* deque(maxlen=30)
MinWindow == 10          \* len(self.current_metrics_window) < 10, [-10:]

FATIGUE_THRESHOLDS ==
    [score_drop_percent |-> 15, height_drop_percent |-> 20, form_degradation |-> 10]

\* deque.append on a deque of maxlen WindowLen
Push(window, sample) ==
    IF Len(window) < WindowLen THEN Append(window, sample)
    ELSE Append(Tail(window), sample)

\* list(window)[-10:]
Recent(window) ==
    IF Len(window) <= MinWindow THEN window
    ELSE SubSeq(window, Len(window) - MinWindow + 1, Len(window))

\* Column with a fault: the filter "if key in m" is missing, a sample without
\* the key counts as 0.
ColumnWithDefault(samples, key) == [i \in 1..Len(samples) |-> Get(samples[i], key)]

\* [m.get(key) for m in samples if key in m]
Column(samples, key) ==
    LET having == SelectSeq(samples, LAMBDA m : key \in DOMAIN m)
    IN  [i \in 1..Len(having) |-> having[i][key]]

RECURSIVE SumSeq(_, _)
SumSeq(s, n) == IF n = 0 THEN 0 ELSE SumSeq(s, n - 1) + s[n]

\* ((baseline - mean(values)) / baseline) * 100 > percent, for baseline > 0
DropsMoreThan(baseline, values, percent) ==
    (baseline * Len(values) - SumSeq(values, Len(values))) * 100
        > percent * baseline * Len(values)

ScoreDropPoints(baseline, recent) ==
    LET baseline_score == Get(baseline, "score")
    IN  IF baseline_score > 0
           /\ DropsMoreThan(baseline_score, Column(recent, "score"),
                            FATIGUE_THRESHOLDS.score_drop_percent)
        THEN <<[type |-> "SCORE_DROP", points |-> 30]>>
        ELSE <<>>

HeightDropPoints(baseline, recent) ==
    LET baseline_height == Get(baseline, "kick_height")
    IN  IF baseline_height > 0
           /\ DropsMoreThan(baseline_height, Column(recent, "kick_height"),
                            FATIGUE_THRESHOLDS.height_drop_percent)
        THEN <<[type |-> "HEIGHT_DROP", points |-> 35]>>
        ELSE <<>>

FormDegradationPoints(recent) ==
    LET recent_support == Column(recent, "support_knee")
        support_trend == IF Len(recent_support) > 1
                         THEN recent_support[Len(recent_support)] - recent_support[1]
                         ELSE 0
    IN  IF recent_support # <<>>
           /\ support_trend < -Tenths(FATIGUE_THRESHOLDS.form_degradation)
        THEN <<[type |-> "FORM_DEGRADATION", points |-> 25]>>
        ELSE <<>>

NoRecommendation == "None"

RestRecommendation ==
    "Consider rest period - fatigue detected. Risk of injury increases with fatigue."

\* The fatigue record as analyze_fatigue creates it.
NoFatigue(frame_idx) ==
    [frame |-> frame_idx, is_fatigued |-> FALSE, fatigue_level |-> 0, indicators |-> <<>>,
     recommendation |-> NoRecommendation]

\* The early return with a fault: the baseline is not looked at.
NotReadyWindowOnly(baseline, window) == Len(window) < MinWindow

\* not self.baseline_metrics or len(self.current_metrics_window) < 10
NotReady(baseline, window) == DOMAIN baseline = {} \/ Len(window) < MinWindow

\* The flag with a fault: it is raised from 60 points on.
IsFatiguedFromSixty(fatigue_score) == fatigue_score >= 60

\* fatigue_score >= 50
IsFatigued(fatigue_score) == fatigue_score >= 50

\* The fatigue record analyze_fatigue returns; window holds the current sample.
analyze_fatigue(baseline, window, frame_idx) ==
    LET recent == Recent(window)
        indicators == ScoreDropPoints(baseline, recent) \o HeightDropPoints(baseline, recent)
                      \o FormDegradationPoints(recent)
        fatigue_score == SumPoints(indicators, Len(indicators))
    IN  IF NotReady(baseline, window) THEN NoFatigue(frame_idx)
        ELSE IF Column(recent, "score") = <<>> \/ Column(recent, "kick_height") = <<>>
        THEN NoFatigue(frame_idx)
        ELSE [frame |-> frame_idx,
              is_fatigued |-> IsFatigued(fatigue_score),
              fatigue_level |-> Min(100, fatigue_score),
              indicators |-> [i \in 1..Len(indicators) |-> indicators[i].type],
              recommendation |-> IF IsFatigued(fatigue_score) THEN RestRecommendation
                                 ELSE NoRecommendation]

\* No metrics, and what the scorer returns for them.
NoMetrics == [key \in {} |-> 0]

InitScorer ==
    /\ score_metrics = NoMetrics
    /\ score_result = calculate_score(score_metrics)
    /\ grade = get_grade(score_result.score)
    /\ score_previous = [metrics |-> score_metrics, result |-> score_result, grade |-> grade]

(***************************************************************************)
(* AutoKickDetector.detect_kick_type                                       *)
(*                                                                         *)
(* The landmarks of a frame are what the detector reads from them: the     *)
(* position of each foot (x and y in hundredths of the frame), the hip     *)
(* rotation and the knee chamber angle of each leg (degrees).  A sub-score *)
(* and a match score are counted in halves of a point: a match score of 4  *)
(* halves is 2.0 / 3.0, a confidence of 0.667.                             *)
(***************************************************************************)
Signature(hip_min, hip_max, knee_min, knee_max, foot_path) ==
    [hip_rotation |-> [min |-> hip_min, max |-> hip_max],
     knee_chamber |-> [min |-> knee_min, max |-> knee_max],
     foot_path |-> foot_path]

KICK_SIGNATURES ==
    [dollyo_chagi |-> Signature(45, 90, 90, 140, "circular"),
     ap_chagi |-> Signature(0, 30, 90, 130, "linear"),
     yeop_chagi |-> Signature(80, 100, 70, 120, "linear"),
     dwi_chagi |-> Signature(150, 180, 60, 100, "linear"),
     naeryeo_chagi |-> Signature(0, 45, 150, 180, "vertical"),
     huryo_chagi |-> Signature(60, 120, 100, 160, "hook"),
     bandal_chagi |-> Signature(30, 60, 140, 180, "arc"),
     mom_dollyo_chagi |-> Signature(180, 360, 90, 150, "circular")]

\* The keys of KICK_SIGNATURES in the order of the dict.
KickOrder ==
    <<"dollyo_chagi", "ap_chagi", "yeop_chagi", "dwi_chagi", "naeryeo_chagi", "huryo_chagi",
      "bandal_chagi", "mom_dollyo_chagi">>

KICK_NAMES ==
    [dollyo_chagi |-> "Roundhouse Kick (Dollyo Chagi)",
     ap_chagi |-> "Front Kick (Ap Chagi)",
     yeop_chagi |-> "Side Kick (Yeop Chagi)",
     dwi_chagi |-> "Back Kick (Dwi Chagi)",
     naeryeo_chagi |-> "Axe Kick (Naeryeo Chagi)",
     huryo_chagi |-> "Hook Kick (Huryo Chagi)",
     bandal_chagi |-> "Crescent Kick (Bandal Chagi)",
     mom_dollyo_chagi |-> "Spinning Kick (Mom Dollyo Chagi)"]

FootMargin == 5            \* l_foot_y < r_foot_y - 0.05
HistoryLen == 30           \* deque(maxlen=30)
MinPositions == 10         \* len(self.frame_history) < 10
HipTolerance == 20         \* abs(hip_rotation - ...) < 20
KneeTolerance == 15        \* abs(knee_chamber - ...) < 15
ConfidenceThreshold == 65  \* self.confidence_threshold = 0.65, in hundredths

\* detect_kicking_leg: the lower y is the higher foot.
detect_kicking_leg(lm) ==
    IF lm.l_foot[2] < lm.r_foot[2] - FootMargin THEN "left"
    ELSE IF lm.r_foot[2] < lm.l_foot[2] - FootMargin THEN "right"
    ELSE "none"

\* The foot analyze_foot_path records.
KickingFoot(lm) == IF detect_kicking_leg(lm) = "left" THEN lm.l_foot ELSE lm.r_foot

\* calculate_knee_chamber(landmarks, kicking_side)
calculate_knee_chamber(lm, kicking_side) ==
    IF kicking_side = "left" THEN lm.knee_chamber_left ELSE lm.knee_chamber_right

\* self.frame_history.append(foot) on a deque of maxlen HistoryLen
Record(history, foot) ==
    IF Len(history) < HistoryLen THEN Append(history, foot) ELSE Append(Tail(history), foot)

MaxOf(S) == CHOOSE x \in S : \A y \in S : y <= x

MinOf(S) == CHOOSE x \in S : \A y \in S : x <= y

\* The path read from a history that holds the current foot.
FootPathOf(history) ==
    LET x_coords == {history[i][1] : i \in 1..Len(history)}
        y_coords == {history[i][2] : i \in 1..Len(history)}
        x_range == MaxOf(x_coords) - MinOf(x_coords)
        y_range == MaxOf(y_coords) - MinOf(y_coords)
    IN  IF Len(history) < MinPositions THEN "analyzing"
        ELSE IF y_range > x_range * 2 THEN "vertical"
        ELSE IF x_range > y_range * 2 THEN "linear"
        ELSE "circular"

\* The sub-score (halves) of an angle against a range of a signature.
RangeScore(angle, range, tolerance) ==
    IF range.min <= angle /\ angle <= range.max THEN 2
    ELSE IF Abs(angle - range.min) < tolerance \/ Abs(angle - range.max) < tolerance THEN 1
    ELSE 0

\* The sub-score (halves) of the foot path against a signature.
PathScore(foot_path, signature) ==
    IF foot_path = signature.foot_path THEN 2
    ELSE IF foot_path = "circular" /\ signature.foot_path \in {"hook", "arc"} THEN 1
    ELSE 0

\* kick_scores[kick_name] * max_score, in halves.
MatchScore(kick_name, hip_rotation, knee_chamber, foot_path) ==
    LET signature == KICK_SIGNATURES[kick_name]
    IN  RangeScore(hip_rotation, signature.hip_rotation, HipTolerance)
        + RangeScore(knee_chamber, signature.knee_chamber, KneeTolerance)
        + PathScore(foot_path, signature)

\* max(kick_scores, key=kick_scores.get): the first key of the largest score.
BestKick(kick_scores) ==
    LET best == CHOOSE i \in 1..Len(KickOrder) :
                    /\ \A j \in 1..Len(KickOrder) :
                           kick_scores[KickOrder[j]] <= kick_scores[KickOrder[i]]
                    /\ \A j \in 1..(i - 1) :
                           kick_scores[KickOrder[j]] < kick_scores[KickOrder[i]]
    IN  KickOrder[best]

\* The acceptance test with a fault: half of the points are enough.
ReachesHalf(halves) == halves * 100 >= 50 * 6

\* confidence >= self.confidence_threshold, for a confidence of halves / 6
ReachesThreshold(halves) == halves * 100 >= ConfidenceThreshold * 6

NoLandmarks ==
    [present |-> FALSE, l_foot |-> <<0, 0>>, r_foot |-> <<0, 0>>, hip_rotation |-> 0,
     knee_chamber_left |-> 0, knee_chamber_right |-> 0]

NoDetails == [key \in {} |-> ""]

\* The result of detect_kick_type; history holds the foot of this frame when
\* there is a kicking leg.  The confidence is in sixths.
detect_kick_type(lm, history) ==
    LET kicking_side == detect_kicking_leg(lm)
        hip_rotation == lm.hip_rotation
        knee_chamber == calculate_knee_chamber(lm, kicking_side)
        foot_path == FootPathOf(history)
        kick_scores == [kick_name \in DOMAIN KICK_SIGNATURES |->
                           MatchScore(kick_name, hip_rotation, knee_chamber, foot_path)]
        best_kick == BestKick(kick_scores)
        confidence == kick_scores[best_kick]
    IN  IF ~lm.present
        THEN [kick_type |-> "None", confidence |-> 0, details |-> NoDetails]
        ELSE IF kicking_side = "none"
        THEN [kick_type |-> "None", confidence |-> 0,
              details |-> [status |-> "No kick detected"]]
        ELSE IF ReachesThreshold(confidence)
        THEN [kick_type |-> best_kick, kick_name |-> KICK_NAMES[best_kick],
              confidence |-> confidence,
              details |-> [hip_rotation |-> hip_rotation, knee_chamber |-> knee_chamber,
                           foot_path |-> foot_path, kicking_leg |-> kicking_side,
                           all_scores |-> kick_scores]]
        ELSE [kick_type |-> "unknown", kick_name |-> "Unknown Technique",
              confidence |-> confidence,
              details |-> [hip_rotation |-> hip_rotation, knee_chamber |-> knee_chamber,
                           foot_path |-> foot_path, kicking_leg |-> kicking_side,
                           best_guess |-> KICK_NAMES[best_kick]]]

\* AutoKickDetector.__init__
InitClassifier ==
    /\ frame_history = <<>>
    /\ detection_history = <<>>
    /\ kick_landmarks = NoLandmarks
    /\ kick_result = [kick_type |-> "None", confidence |-> 0,
                      details |-> [status |-> "not called"]]

\* self.auto_detector.detect_kick_type(results.pose_landmarks)
DetectKickType(lm) ==
    /\ kick_landmarks' = lm
    /\ frame_history' = IF lm.present /\ detect_kicking_leg(lm) # "none"
                        THEN Record(frame_history, KickingFoot(lm))
                        ELSE frame_history
    /\ kick_result' = detect_kick_type(lm, frame_history')
    /\ UNCHANGED detection_history

(***************************************************************************)
(* The injury prevention system and its caller.                            *)
(***************************************************************************)
PoseLandmarks ==
    {"left_hip", "right_hip", "left_knee", "right_knee", "left_ankle", "right_ankle",
     "left_shoulder", "right_shoulder"}

APose(visible, left_valgus, right_valgus, hip_drop, trunk_lean, left_knee, right_knee) ==
    [visible |-> visible, left_valgus |-> left_valgus, right_valgus |-> right_valgus,
     hip_drop |-> hip_drop, trunk_lean |-> trunk_lean,
     left_knee_angle |-> left_knee, right_knee_angle |-> right_knee]

\* No frame analysed yet, no summary asked yet.
NoPose == APose({}, 0, 0, 0, 0, 0, 0)

NoRisks == [frame |-> -1, alerts |-> <<>>, risk_level |-> "low", overall_risk_score |-> 0]

NoSummary ==
    [total_risk_events |-> -1, high_risk_events |-> 0, medium_risk_events |-> 0,
     fatigue_events |-> 0, alert_breakdown |-> AlertBreakdown(<<>>), most_common_risk |-> NoRisk,
     recommendation |-> NoRecommendation]

\* InjuryPreventionSystem.__init__
InitInjurySystem ==
    /\ injury_risks = <<>>
    /\ fatigue_indicators = <<>>
    /\ baseline_metrics = NoMetrics
    /\ current_metrics_window = <<>>
    /\ alert_history = <<>>

InitInjuryCaller ==
    /\ pose = NoPose
    /\ system_clock = 0
    /\ risks = NoRisks
    /\ fatigue = NoFatigue(-1)
    /\ session_summary = NoSummary

\* self.analyze_injury_risk(landmarks, frame_idx, frame_time) on the landmarks
\* of a pose.  What an earlier get_session_summary returned is gone.
AnalyzeInjuryRisk(p) ==
    /\ pose' = p
    /\ risks' = analyze_injury_risk(p, system_clock)
    /\ system_clock' = system_clock + 1
    /\ IF risks'.alerts # <<>>
       THEN /\ injury_risks' = Append(injury_risks, risks')
            /\ alert_history' = alert_history \o risks'.alerts
       ELSE UNCHANGED <<injury_risks, alert_history>>
    /\ session_summary' = NoSummary
    /\ UNCHANGED <<fatigueVars, fatigue>>

\* self.set_baseline(metrics)
SetBaseline(metrics) ==
    /\ baseline_metrics' = metrics
    /\ UNCHANGED <<pose, system_clock, risks, injury_risks, alert_history, session_summary,
                   current_metrics_window, fatigue_indicators, fatigue>>

\* self.analyze_fatigue(current_metrics, frame_idx)
AnalyzeFatigue(sample) ==
    /\ current_metrics_window' = Push(current_metrics_window, sample)
    /\ fatigue' = analyze_fatigue(baseline_metrics, current_metrics_window', system_clock)
    /\ system_clock' = system_clock + 1
    /\ fatigue_indicators' = IF fatigue'.is_fatigued THEN Append(fatigue_indicators, fatigue')
                             ELSE fatigue_indicators
    /\ UNCHANGED <<pose, risks, injury_risks, alert_history, session_summary, baseline_metrics>>

\* self.get_session_summary()
GetSessionSummary ==
    /\ session_summary' = get_session_summary(injury_risks, alert_history, fatigue_indicators)
    /\ UNCHANGED <<pose, system_clock, risks, injury_risks, alert_history, fatigueVars, fatigue>>

InitApp == InitScorer /\ InitInjurySystem /\ InitInjuryCaller /\ InitClassifier

(***************************************************************************)
(* TrajectoryTracker                                                       *)
(***************************************************************************)
max_points == 30       \* self.max_points = 30

Position(x, y, frame_idx) == [x |-> x, y |-> y, frame |-> frame_idx]

\* add_position with a fault: pop() for pop(0), the newest point is dropped.
add_position_dropping_newest(positions, x, y, frame_idx) ==
    LET longer == Append(positions, Position(x, y, frame_idx))
    IN  IF Len(longer) > max_points THEN SubSeq(longer, 1, Len(longer) - 1) ELSE longer

\* self.foot_positions.append(...); pop(0) when longer than max_points
add_position(positions, x, y, frame_idx) ==
    LET longer == Append(positions, Position(x, y, frame_idx))
    IN  IF Len(longer) > max_points THEN Tail(longer) ELSE longer

\* Nothing appended to any buffer yet.
NoAppends == [trajectory |-> <<>>, window |-> <<>>, history |-> <<>>]

\* TrajectoryTracker.__init__
InitTracker ==
    /\ foot_positions = <<>>
    /\ appended = NoAppends

\* self.add_position(x, y, frame_idx)
AddPosition(x, y, frame_idx) ==
    foot_positions' = add_position(foot_positions, x, y, frame_idx)

\* self.clear()
ClearTrajectory == foot_positions' = <<>>

(***************************************************************************)
(* TaekwondoAnalyzer.analyze_frame on the landmarks of a pose.             *)
(*                                                                         *)
(* A frame gives, for each landmark, its visibility and its vertical       *)
(* coordinate y, both in hundredths (y grows downwards in the image).      *)
(***************************************************************************)
FrameLandmarks ==
    {"nose", "left_hip", "right_hip", "left_ankle", "right_ankle", "left_foot", "right_foot"}

MinVisibility == 50    \* lm.visibility < 0.5
DefaultY == 100        \* ... else 1.0

FootOf == [left |-> "left_foot", right |-> "right_foot"]
AnkleOf == [left |-> "left_ankle", right |-> "right_ankle"]

\* get_landmark(landmarks, name) is not None
Has(frame, name) == frame[name].visibility >= MinVisibility

\* The hip and ankle keypoints get_landmark returns.
KeypointsOf(frame) ==
    [l_hip |-> Has(frame, "left_hip"), r_hip |-> Has(frame, "right_hip"),
     l_ankle |-> Has(frame, "left_ankle"), r_ankle |-> Has(frame, "right_ankle")]

\* l_y and r_y: the foot's y, or the ankle's, or 1.0
LegY(frame, side) ==
    IF Has(frame, FootOf[side]) THEN frame[FootOf[side]].y
    ELSE IF Has(frame, AnkleOf[side]) THEN frame[AnkleOf[side]].y
    ELSE DefaultY

\* if l_y < r_y: kick_leg, support_leg = 'left', 'right'; else: 'right', 'left'
KickLeg(frame) == IF LegY(frame, "left") < LegY(frame, "right") THEN "left" ELSE "right"

SupportLeg(frame) == IF KickLeg(frame) = "left" THEN "right" ELSE "left"

\* kick_foot: the kicking leg's foot, or its ankle
KickFoot(frame) ==
    IF Has(frame, FootOf[KickLeg(frame)]) THEN FootOf[KickLeg(frame)]
    ELSE AnkleOf[KickLeg(frame)]

\* kick_height before rounding, in hundredths of a percent and cut at the
\* hundredth.  No frame fed to the model gives a height near a half tenth.
RawKickHeight(frame) ==
    LET support_ankle == AnkleOf[SupportLeg(frame)]
        kick_foot == KickFoot(frame)
        body_h == Abs(frame[support_ankle].y - frame["nose"].y)
        ratio == ((frame[support_ankle].y - frame[kick_foot].y) * 10000) \div body_h
    IN  IF Has(frame, support_ankle) /\ Has(frame, "nose") /\ Has(frame, kick_foot)
           /\ body_h > 1
        THEN (IF ratio < 0 THEN 0 ELSE Min(10000, ratio))
        ELSE 0

\* 'kicking_leg': kick_leg.capitalize()
Capitalized == [left |-> "Left", right |-> "Right"]

\* return None
NoneReturned ==
    [none |-> TRUE, frame_idx |-> 0, kick_height |-> 0, kicking_leg |-> "None",
     support_leg |-> "None"]

\* return metrics, with the support leg the metrics were computed on
MetricsReturned(frame, frame_idx) ==
    [none |-> FALSE, frame_idx |-> frame_idx,
     kick_height |-> Round1(RawKickHeight(frame)),
     kicking_leg |-> Capitalized[KickLeg(frame)],
     support_leg |-> SupportLeg(frame)]

\* A frame on which every landmark is at y 0 and of visibility 0.
NoFrame == [name \in FrameLandmarks |-> [visibility |-> 0, y |-> 0]]

InitLandmarks ==
    /\ frame_landmarks = NoFrame
    /\ returned = NoneReturned

\* One call analyze_frame(landmarks, frame_time, frame_idx) on a frame.
AnalyzeLandmarks(frame) ==
    /\ frame_landmarks' = frame
    /\ AnalyzeFrame(KeypointsOf(frame), RawKickHeight(frame))
    /\ returned' = IF Rejects(KeypointsOf(frame)) THEN NoneReturned
                   ELSE MetricsReturned(frame, clock)

(***************************************************************************)
(* Two TaekwondoAnalyzer objects.                                          *)
(***************************************************************************)
Instances == {1, 2}

\* The attributes __init__ sets on an object.
NewAnalyzer ==
    [cooldown |-> 0, detected_kicks |-> <<>>, metrics_history |-> <<>>,
     frame_analysis |-> <<>>]

\* The attributes of self after self.analyze_frame(landmarks, frame_time, frame_idx).
analyze_frame(self, lm, h, frame_idx) ==
    IF Rejects(lm) THEN self
    ELSE LET metrics == Metrics(frame_idx, h)
         IN  [cooldown |-> CooldownAfter(h, self.cooldown),
              detected_kicks |->
                  IF Fires(h, self.cooldown)
                  THEN Append(self.detected_kicks, KickData(metrics, self.detected_kicks))
                  ELSE self.detected_kicks,
              metrics_history |-> Append(self.metrics_history, metrics),
              frame_analysis |-> Append(self.frame_analysis, metrics)]

\* CallOn with a fault: cooldown is an attribute of the class, not of the object.
CallOnSharingCooldown(objects, i, lm, h, frame_idx) ==
    LET after == analyze_frame(objects[i], lm, h, frame_idx)
    IN  [j \in DOMAIN objects |->
            IF j = i THEN after ELSE [objects[j] EXCEPT !.cooldown = after.cooldown]]

\* objects[i].analyze_frame(...): the attributes written are those of objects[i].
CallOn(objects, i, lm, h, frame_idx) ==
    [objects EXCEPT ![i] = analyze_frame(objects[i], lm, h, frame_idx)]

InitPair ==
    /\ analyzers = [i \in Instances |-> NewAnalyzer]
    /\ fed = [i \in Instances |-> <<>>]

\* The next frame of stream i is fed to object i.
AnalyzeFrameOn(i, lm, h) ==
    /\ analyzers' = CallOn(analyzers, i, lm, h, Len(fed[i]))
    /\ fed' = [fed EXCEPT ![i] = Append(@, [landmarks |-> lm, height |-> h])]

InitOther == InitTracker /\ InitLandmarks /\ InitPair

(***************************************************************************)
(* The state machines.                                                     *)
(***************************************************************************)
NoRiskLevel == [zone |-> "none", label |-> "none"]
NoCombined == [acwr_risk |-> 0, wellness_risk |-> 0, combined_risk |-> 0, status |-> "none"]
Entry(s, f, ms, st, m, mo) ==
    [sleep_quality |-> s, fatigue |-> f, muscle_soreness |-> ms,
     stress |-> st, mood |-> m, motivation |-> mo]

\* TaekwondoAnalyzer.__init__
InitAnalyzer ==
    /\ cooldown = 0
    /\ detected_kicks = <<>>
    /\ metrics_history = <<>>
    /\ frame_analysis = <<>>
    /\ clock = 0
    /\ raw_history = <<>>
    /\ rejected = 0

\* No training data, nothing computed.
InitLoad ==
    /\ training_data = <<>>
    /\ calculation_date = 0
    /\ acwr = 100
    /\ wellness_entry = Entry(5, 5, 5, 5, 5, 5)
    /\ wellness_score = 550
    /\ wellness_previous = [entry |-> wellness_entry, score |-> wellness_score]
    /\ risk_level = NoRiskLevel
    /\ combined = NoCombined
    /\ alerts = <<>>
    /\ calls = {}

Init == InitAnalyzer /\ InitOther /\ InitLoad /\ InitApp

\* A frame the caller may feed: at most MaxRejected of them are rejected.
Feedable(lm) == Rejects(lm) => rejected < MaxRejected

\* A stream of frames of any heights.
Next ==
    \E lm \in Landmarks, h \in RawHeights :
        /\ clock < MaxFrames
        /\ Feedable(lm)
        /\ AnalyzeFrame(lm, h)
        /\ UNCHANGED <<loadVars, appVars>>

Spec == Init /\ [][Next]_vars

\* A stream with a single spike: frames below the threshold, then frames at or
\* above it, then frames below it.
IsHigh(h) == h >= KickThreshold * 100

SpikeOver == \E i, j \in 1..Len(raw_history) : i < j /\ IsHigh(raw_history[i]) /\ ~IsHigh(raw_history[j])

NextSpike ==
    \E lm \in Landmarks, h \in RawHeights :
        /\ clock < MaxSpikeFrames
        /\ Feedable(lm)
        /\ (SpikeOver /\ ~Rejects(lm)) => ~IsHigh(h)
        /\ AnalyzeFrame(lm, h)
        /\ UNCHANGED <<loadVars, appVars>>

SpecSpike == Init /\ [][NextSpike]_vars

(***************************************************************************)
(* The training-load engine on an athlete's training data.                 *)
(***************************************************************************)
\* Dates, in days, around the two windows of the calculation dates, and loads.
\* The training_load column is whatever the DataFrame holds: a row may carry a
\* negative load.
RecordDates == {0, 1, 21, 22, 28, 29}
CalcDates == {28, 29}
Loads == {-350, 0, 350, 560, 770}

NoResults ==
    /\ risk_level = NoRiskLevel
    /\ combined = NoCombined
    /\ alerts = <<>>
    /\ calls = {}

InitAcwr ==
    /\ InitAnalyzer /\ InitOther
    /\ InitApp
    /\ training_data = <<>>
    /\ calculation_date = 0
    /\ acwr = 0
    /\ wellness_entry \in {Entry(5, 5, 5, 5, 5, 5), Entry(2, 9, 9, 9, 2, 2)}
    /\ wellness_score = 0
    /\ wellness_previous = [entry |-> wellness_entry, score |-> wellness_score]
    /\ NoResults

\* A row is added to the athlete's data (data.append(entry)); what an earlier
\* run computed from the data is gone.
LogTraining(d, load) ==
    /\ Len(training_data) < MaxRecords
    /\ training_data' = Append(training_data, [date |-> d, training_load |-> load])
    /\ acwr' = 0 /\ wellness_score' = 0 /\ calculation_date' = 0
    /\ risk_level' = NoRiskLevel /\ combined' = NoCombined /\ alerts' = <<>>
    /\ calls' = {}
    /\ UNCHANGED <<frameVars, appVars, wellness_entry, wellness_previous>>

\* calculate_acwr(training_data, d) called on its own.
CalculateAcwr(d) ==
    /\ acwr' = calculate_acwr(training_data, d)
    /\ calculation_date' = d
    /\ calls' = {"calculate_acwr"}
    /\ wellness_score' = 0
    /\ risk_level' = NoRiskLevel /\ combined' = NoCombined /\ alerts' = <<>>
    /\ UNCHANGED <<frameVars, appVars, training_data, wellness_entry, wellness_previous>>

\* One athlete's pass of analyze_all_athletes on day d, and the alerts page's
\* check_alerts on its row.
AnalyzeAthlete(d) ==
    /\ training_data # <<>>
    /\ acwr' = calculate_acwr(training_data, d)
    /\ calculation_date' = d
    /\ risk_level' = get_risk_level(acwr')
    /\ wellness_score' = calculate_wellness_score(wellness_entry)
    /\ combined' = calculate_combined_risk(acwr', wellness_score')
    /\ alerts' = check_alerts(acwr', wellness_score')
    /\ calls' = {"calculate_acwr", "get_risk_level", "calculate_wellness_score",
                 "calculate_combined_risk", "check_alerts"}
    /\ UNCHANGED <<frameVars, appVars, training_data, wellness_entry, wellness_previous>>

NextAcwr ==
    \/ \E d \in RecordDates, load \in Loads : LogTraining(d, load)
    \/ \E d \in CalcDates : CalculateAcwr(d)
    \/ \E d \in CalcDates : AnalyzeAthlete(d)

SpecAcwr == InitAcwr /\ [][NextAcwr]_vars

(***************************************************************************)
(* The risk functions on an ACWR value and a wellness score.               *)
(***************************************************************************)
\* ACWR values (hundredths): every value up to MaxAcwr, and values around the
\* max of the last zone (999).
AcwrValues == (0..MaxAcwr) \cup {99899, 99900, 99901}

\* Wellness scores (tenths) around the thresholds 5.0 and 50.
ScoreValues == {0, 49, 50, 100, 300, 499, 500, 1000}

InitRisk ==
    /\ InitAnalyzer /\ InitOther
    /\ InitApp
    /\ training_data = <<>>
    /\ calculation_date = 0
    /\ acwr \in AcwrValues
    /\ wellness_entry = Entry(5, 5, 5, 5, 5, 5)
    /\ wellness_score \in ScoreValues
    /\ wellness_previous = [entry |-> wellness_entry, score |-> wellness_score]
    /\ NoResults

GetRiskLevel ==
    /\ "get_risk_level" \notin calls
    /\ risk_level' = get_risk_level(acwr)
    /\ calls' = calls \cup {"get_risk_level"}
    /\ UNCHANGED <<frameVars, appVars, training_data, calculation_date, acwr, wellness_entry,
                   wellness_score, wellness_previous, combined, alerts>>

CalculateCombinedRisk ==
    /\ "calculate_combined_risk" \notin calls
    /\ combined' = calculate_combined_risk(acwr, wellness_score)
    /\ calls' = calls \cup {"calculate_combined_risk"}
    /\ UNCHANGED <<frameVars, appVars, training_data, calculation_date, acwr, wellness_entry,
                   wellness_score, wellness_previous, risk_level, alerts>>

CheckAlerts ==
    /\ "check_alerts" \notin calls
    /\ alerts' = check_alerts(acwr, wellness_score)
    /\ calls' = calls \cup {"check_alerts"}
    /\ UNCHANGED <<frameVars, appVars, training_data, calculation_date, acwr, wellness_entry,
                   wellness_score, wellness_previous, risk_level, combined>>

NextRisk == GetRiskLevel \/ CalculateCombinedRisk \/ CheckAlerts

SpecRisk == InitRisk /\ [][NextRisk]_vars

(***************************************************************************)
(* The wellness scorer on successive records.                              *)
(***************************************************************************)
\* Values of a wellness input (the inputs are 1..10).
WellnessLevels == {1, 2, 9, 10}

WellnessEntries ==
    {Entry(s, f, ms, st, m, mo) :
        s \in WellnessLevels, f \in WellnessLevels, ms \in WellnessLevels,
        st \in WellnessLevels, m \in WellnessLevels, mo \in WellnessLevels}

InitWellness ==
    /\ InitAnalyzer /\ InitOther
    /\ InitApp
    /\ training_data = <<>>
    /\ calculation_date = 0
    /\ acwr = 0
    /\ wellness_entry \in WellnessEntries
    /\ wellness_score = calculate_wellness_score(wellness_entry)
    /\ wellness_previous = [entry |-> wellness_entry, score |-> wellness_score]
    /\ NoResults

\* The next record differs from the last one in one input; it is scored.
ScoreWellness(m, v) ==
    /\ v # wellness_entry[m]
    /\ wellness_previous' = [entry |-> wellness_entry, score |-> wellness_score]
    /\ wellness_entry' = [wellness_entry EXCEPT ![m] = v]
    /\ wellness_score' = calculate_wellness_score(wellness_entry')
    /\ UNCHANGED <<frameVars, appVars, training_data, calculation_date, acwr, resultVars>>

NextWellness == \E m \in WellnessMetrics, v \in WellnessLevels : ScoreWellness(m, v)

SpecWellness == InitWellness /\ [][NextWellness]_vars

(***************************************************************************)
(* The technique scorer on successive metrics records.                     *)
(***************************************************************************)
ScoreKeys == {"knee_angle", "kick_height", "hip_flexion", "support_knee", "visibility"}

\* Values (tenths): for the knee angle the two sides of every threshold, for the
\* other keys a value in every tier of the band and the two sides of one
\* threshold.
ScoreValuesOf ==
    [knee_angle |-> {1199, 1200, 1399, 1400, 1599, 1600, 1700},
     kick_height |-> {299, 300, 500, 800},
     hip_flexion |-> {899, 900, 1150},
     support_knee |-> {1399, 1400, 1700, 1801},
     visibility |-> {599, 799, 800, 900}]

FullMetrics ==
    [knee_angle : ScoreValuesOf.knee_angle, kick_height : ScoreValuesOf.kick_height,
     hip_flexion : ScoreValuesOf.hip_flexion, support_knee : ScoreValuesOf.support_knee,
     visibility : ScoreValuesOf.visibility]

\* The record of the rubric's example.
ExampleMetrics ==
    [knee_angle |-> 1700, kick_height |-> 800, hip_flexion |-> 1150,
     support_knee |-> 1700, visibility |-> 900]

\* A metrics record holds every key, or some of the keys, or none.
MetricsRecords ==
    FullMetrics \cup {[key \in keys |-> ExampleMetrics[key]] : keys \in SUBSET ScoreKeys}

\* What the results page computes from a record (src/app.py:3660-3661).
Scored(metrics) ==
    LET result == calculate_score(metrics)
    IN  [metrics |-> metrics, result |-> result, grade |-> get_grade(result.score)]

InitScore ==
    /\ InitAnalyzer /\ InitOther
    /\ InitLoad
    /\ InitInjurySystem
    /\ InitInjuryCaller
    /\ InitClassifier
    /\ score_metrics \in MetricsRecords
    /\ score_result = Scored(score_metrics).result
    /\ grade = Scored(score_metrics).grade
    /\ score_previous = Scored(score_metrics)

\* The next record differs from the last one in one value; it is scored and
\* graded.
ScoreMetrics(key, v) ==
    /\ key \in DOMAIN score_metrics
    /\ v # score_metrics[key]
    /\ score_previous' = [metrics |-> score_metrics, result |-> score_result, grade |-> grade]
    /\ score_metrics' = [score_metrics EXCEPT ![key] = v]
    /\ score_result' = calculate_score(score_metrics')
    /\ grade' = get_grade(score_result'.score)
    /\ UNCHANGED <<frameVars, loadVars, otherVars, injuryVars, classifierVars>>

NextScore == \E key \in ScoreKeys : \E v \in ScoreValuesOf[key] : ScoreMetrics(key, v)

SpecScore == InitScore /\ [][NextScore]_vars

(***************************************************************************)
(* analyze_injury_risk on the poses of a frame.                            *)
(***************************************************************************)
\* Landmark sets: every landmark seen, one landmark of a leg, a hip or a
\* shoulder hidden, nothing seen.
VisibleSets ==
    {PoseLandmarks, PoseLandmarks \ {"left_knee"}, PoseLandmarks \ {"right_hip"},
     PoseLandmarks \ {"left_shoulder"}, {}}

\* Measures (hundredths) on both sides of the thresholds.
ValgusAngles == {-1800, 1000, 1001, 1500, 1501, 1800}
HipDrops == {1000, 1001, 1500, 1501}
TrunkLeans == {-3001, 3000, 3001}
KneeAngles == {17500, 17501}

Poses ==
    {APose(v, lv, rv, hd, tl, lk, rk) :
        v \in VisibleSets, lv \in ValgusAngles, rv \in ValgusAngles, hd \in HipDrops,
        tl \in TrunkLeans, lk \in KneeAngles, rk \in KneeAngles}

InitInjury ==
    /\ InitAnalyzer /\ InitOther /\ InitLoad /\ InitScorer /\ InitClassifier
    /\ InitInjurySystem
    /\ InitInjuryCaller

\* The frames of a clip show one pose; each frame is analysed.
NextInjury ==
    /\ system_clock < MaxInjuryFrames
    /\ \E p \in Poses : (system_clock > 0 => p = pose) /\ AnalyzeInjuryRisk(p)
    /\ UNCHANGED <<frameVars, loadVars, otherVars, scorerVars, classifierVars>>

SpecInjury == InitInjury /\ [][NextInjury]_vars

(***************************************************************************)
(* A session of the injury prevention system.                              *)
(***************************************************************************)
\* Poses of a session: both knees collapsing and a hip drop; a hip drop alone;
\* a trunk lean alone; a left knee hyperextension alone.
SessionPoses ==
    {APose(PoseLandmarks, 1800, -1800, 1501, 0, 12000, 12000),
     APose(PoseLandmarks, 0, 0, 1501, 0, 17000, 17000),
     APose(PoseLandmarks, 0, 0, 0, 3001, 17000, 17000),
     APose(PoseLandmarks, 0, 0, 0, 0, 17501, 17000)}

\* The samples of an athlete: fresh, and tired.
FreshSample == [score |-> 80, kick_height |-> 500, support_knee |-> 1700]
TiredSample == [score |-> 64, kick_height |-> 375, support_knee |-> 1550]

\* The system after a drill: the baseline set on a fresh sample, then n tired
\* samples analysed one after the other.
RECURSIVE AfterDrill(_)
AfterDrill(n) ==
    IF n = 0
    THEN [window |-> <<>>, indicators |-> <<>>, result |-> NoFatigue(-1)]
    ELSE LET before == AfterDrill(n - 1)
             window == Push(before.window, TiredSample)
             result == analyze_fatigue(FreshSample, window, n - 1)
         IN  [window |-> window,
              indicators |-> IF result.is_fatigued THEN Append(before.indicators, result)
                             ELSE before.indicators,
              result |-> result]

\* A session starts on a new system, or after a drill.
InitSession ==
    /\ InitAnalyzer /\ InitOther /\ InitLoad /\ InitScorer /\ InitClassifier
    /\ injury_risks = <<>>
    /\ alert_history = <<>>
    /\ pose = NoPose
    /\ risks = NoRisks
    /\ session_summary = NoSummary
    /\ \/ /\ baseline_metrics = NoMetrics
          /\ current_metrics_window = <<>>
          /\ fatigue_indicators = <<>>
          /\ fatigue = NoFatigue(-1)
          /\ system_clock = 0
       \/ /\ baseline_metrics = FreshSample
          /\ current_metrics_window = AfterDrill(DrillLength).window
          /\ fatigue_indicators = AfterDrill(DrillLength).indicators
          /\ fatigue = AfterDrill(DrillLength).result
          /\ system_clock = DrillLength

NextSession ==
    /\ \/ \E p \in SessionPoses : Len(injury_risks) < MaxSessionFrames /\ AnalyzeInjuryRisk(p)
       \/ GetSessionSummary
    /\ UNCHANGED <<frameVars, loadVars, otherVars, scorerVars, classifierVars>>

SpecSession == InitSession /\ [][NextSession]_vars

(***************************************************************************)
(* The fatigue analysis on the samples of an athlete.                      *)
(***************************************************************************)
InitFatigue == InitInjury

NextFatigue ==
    /\ \/ SetBaseline(FreshSample)
       \/ \E sample \in {FreshSample, TiredSample} :
              Len(current_metrics_window) < MaxFatigueFrames /\ AnalyzeFatigue(sample)
    /\ UNCHANGED <<frameVars, loadVars, otherVars, scorerVars, classifierVars>>

SpecFatigue == InitFatigue /\ [][NextFatigue]_vars

(***************************************************************************)
(* The kick-type detector on the frames of a clip.                         *)
(***************************************************************************)
\* Foot positions: on the floor, and raised; a raised foot moves straight up or
\* straight to the side.
FloorFoot == <<50, 90>>
RaisedFoot == <<50, 40>>
RaisedFeet == {RaisedFoot, <<50, 10>>, <<80, 40>>}

\* The hip rotation and the knee chamber of the kicking leg on a frame.
KickAngles == {<<10, 100>>, <<10, 170>>, <<85, 100>>, <<135, 0>>, <<135, 100>>, <<200, 100>>}

ALandmarks(l_foot, r_foot, hip_rotation, knee_left, knee_right) ==
    [present |-> TRUE, l_foot |-> l_foot, r_foot |-> r_foot, hip_rotation |-> hip_rotation,
     knee_chamber_left |-> knee_left, knee_chamber_right |-> knee_right]

\* Frames of a kick of the left leg, one frame of a kick of the right leg, a
\* frame with the left foot 0.05 above the right one, a frame without
\* landmarks.
KickFrames ==
    {ALandmarks(foot, FloorFoot, angles[1], angles[2], 170) :
        foot \in RaisedFeet, angles \in KickAngles}
    \cup {ALandmarks(FloorFoot, RaisedFoot, 85, 170, 100),
          ALandmarks(<<50, 85>>, FloorFoot, 85, 100, 170),
          NoLandmarks}

\* The raised foot of a clip keeps to one line.
OnOneLine(history, lm) ==
    (lm.present /\ detect_kicking_leg(lm) # "none") =>
        \E other \in RaisedFeet :
            Range(history) \cup {KickingFoot(lm)} \subseteq {RaisedFoot, other}

InitKickType ==
    /\ InitAnalyzer /\ InitOther /\ InitLoad /\ InitScorer
    /\ InitInjurySystem /\ InitInjuryCaller
    /\ InitClassifier

NextKickType ==
    /\ \E lm \in KickFrames :
           /\ Len(frame_history) < MaxFootPositions
           /\ OnOneLine(frame_history, lm)
           /\ DetectKickType(lm)
    /\ UNCHANGED <<frameVars, loadVars, otherVars, scorerVars, injuryVars>>

SpecKickType == InitKickType /\ [][NextKickType]_vars

(***************************************************************************)
(* The three rolling buffers over a long clip.                             *)
(***************************************************************************)
\* The k-th entry given to each buffer: a point of the kicking foot, a metrics
\* record of the shape analyze_frame returns, a frame with the left foot
\* raised.  No two entries of a buffer are equal.
TrackedPoint(k) == Position(10 + k, 40, k)

FrameSample(k) == [frame_idx |-> k, kick_height |-> 500, support_knee |-> 1700]

FootFrame(k) == ALandmarks(<<10 + k, 40>>, FloorFoot, 85, 100, 170)

InitBuffers == InitAnalyzer /\ InitOther /\ InitLoad /\ InitApp

\* The caller keeps what it appended to the trajectory since the last clear,
\* to the fatigue window and to the classifier's history.
TrackPoint ==
    LET k == Len(appended.trajectory)
    IN  /\ k < MaxAppends
        /\ AddPosition(TrackedPoint(k).x, TrackedPoint(k).y, TrackedPoint(k).frame)
        /\ appended' = [appended EXCEPT !.trajectory = Append(@, TrackedPoint(k))]
        /\ UNCHANGED <<frameVars, loadVars, scorerVars, injuryVars, classifierVars,
                       landmarkVars, pairVars>>

ClearTrack ==
    /\ ClearTrajectory
    /\ appended' = [appended EXCEPT !.trajectory = <<>>]
    /\ UNCHANGED <<frameVars, loadVars, scorerVars, injuryVars, classifierVars,
                   landmarkVars, pairVars>>

TrackFatigue ==
    LET k == Len(appended.window)
    IN  /\ k < MaxAppends
        /\ AnalyzeFatigue(FrameSample(k))
        /\ appended' = [appended EXCEPT !.window = Append(@, FrameSample(k))]
        /\ UNCHANGED <<frameVars, loadVars, scorerVars, classifierVars, foot_positions,
                       landmarkVars, pairVars>>

TrackFoot ==
    LET k == Len(appended.history)
    IN  /\ k < MaxAppends
        /\ DetectKickType(FootFrame(k))
        /\ appended' = [appended EXCEPT !.history = Append(@, KickingFoot(FootFrame(k)))]
        /\ UNCHANGED <<frameVars, loadVars, scorerVars, injuryVars, foot_positions,
                       landmarkVars, pairVars>>

NextBuffers == TrackPoint \/ ClearTrack \/ TrackFatigue \/ TrackFoot

SpecBuffers == InitBuffers /\ [][NextBuffers]_vars

(***************************************************************************)
(* analyze_frame on frames of landmarks.                                   *)
(***************************************************************************)
\* A frame: the landmarks of low visibility (0.49 against 0.50) and the y of
\* the feet and of the ankles; the nose is at 0.10 and the hips at 0.50.
AFrame(hidden, l_foot_y, r_foot_y, l_ankle_y, r_ankle_y) ==
    LET y == [nose |-> 10, left_hip |-> 50, right_hip |-> 50,
              left_ankle |-> l_ankle_y, right_ankle |-> r_ankle_y,
              left_foot |-> l_foot_y, right_foot |-> r_foot_y]
    IN  [name \in FrameLandmarks |->
            [visibility |-> IF name \in hidden THEN MinVisibility - 1 ELSE MinVisibility,
             y |-> y[name]]]

HiddenSets ==
    {{}, {"left_hip"}, {"right_hip"}, {"left_ankle"}, {"right_ankle"},
     {"left_ankle", "right_ankle"}, {"left_foot"}, {"right_foot"},
     {"left_foot", "right_foot"}, {"left_foot", "left_ankle"}, {"nose"}}

\* The left foot raised, the right foot raised, both feet on the floor; the
\* ankles level, or the left one higher.
FootHeights == {<<70, 90>>, <<90, 70>>, <<90, 90>>}
AnkleHeights == {<<90, 90>>, <<86, 90>>}

LandmarkFrames ==
    {AFrame(hidden, feet[1], feet[2], ankles[1], ankles[2]) :
        hidden \in HiddenSets, feet \in FootHeights, ankles \in AnkleHeights}

InitLandmarkFrames == InitAnalyzer /\ InitOther /\ InitLoad /\ InitApp

NextLandmarks ==
    \E frame \in LandmarkFrames :
        /\ clock < MaxLandmarkFrames
        /\ AnalyzeLandmarks(frame)
        /\ UNCHANGED <<loadVars, scorerVars, injuryVars, classifierVars, trackerVars, pairVars>>

SpecLandmarks == InitLandmarkFrames /\ [][NextLandmarks]_vars

(***************************************************************************)
(* Two analyzers, each fed its own stream, in any interleaving.            *)
(***************************************************************************)
\* A frame of a stream: accepted at either height, or rejected for a hidden hip.
PairFrames ==
    {[landmarks |-> lm, height |-> h] :
        lm \in {l \in Landmarks : l.r_hip /\ l.l_ankle /\ l.r_ankle}, h \in RawHeights}
    \ {[landmarks |-> [l_hip |-> FALSE, r_hip |-> TRUE, l_ankle |-> TRUE, r_ankle |-> TRUE],
        height |-> 2496]}

InitPairStreams == InitAnalyzer /\ InitOther /\ InitLoad /\ InitApp

NextPair ==
    \E i \in Instances, frame \in PairFrames :
        /\ Len(fed[i]) < MaxPairFrames
        /\ AnalyzeFrameOn(i, frame.landmarks, frame.height)
        /\ UNCHANGED <<frameVars, loadVars, scorerVars, injuryVars, classifierVars,
                       trackerVars, landmarkVars>>

SpecPair == InitPairStreams /\ [][NextPair]_vars

(***************************************************************************)
(* The alerts page on an athlete's latest wellness record.                 *)
(***************************************************************************)
\* The athlete has one row of training data; the latest record carries any
\* wellness inputs.
InitAlertsPage ==
    /\ InitAnalyzer /\ InitOther
    /\ InitApp
    /\ training_data = <<[date |-> 28, training_load |-> 350]>>
    /\ calculation_date = 0
    /\ acwr = 0
    /\ wellness_entry \in WellnessEntries
    /\ wellness_score = 0
    /\ wellness_previous = [entry |-> wellness_entry, score |-> wellness_score]
    /\ NoResults

NextAlertsPage == \E d \in CalcDates : AnalyzeAthlete(d)

SpecAlertsPage == InitAlertsPage /\ [][NextAlertsPage]_vars

(***************************************************************************)
(* The fatigue analysis on the metrics analyze_frame returns.              *)
(***************************************************************************)
\* Metrics of a frame as analyze_frame returns them, with the keys
\* analyze_fatigue looks for (there is no score among them): of a strong kick,
\* and of a weak one.
StrongFrame(k) == [frame_idx |-> k, kick_height |-> 500, support_knee |-> 1700]

WeakFrame(k) == [frame_idx |-> k, kick_height |-> 300, support_knee |-> 1500]

InitFrameFatigue == InitInjury

\* The baseline is set on the metrics of a frame or on a scored record; the
\* metrics of each frame are analysed.
NextFrameFatigue ==
    /\ \/ \E metrics \in {StrongFrame(0), FreshSample} : SetBaseline(metrics)
       \/ \E sample \in {StrongFrame(system_clock), WeakFrame(system_clock)} :
              Len(current_metrics_window) < MaxFatigueFrames /\ AnalyzeFatigue(sample)
    /\ UNCHANGED <<frameVars, loadVars, otherVars, scorerVars, classifierVars>>

SpecFrameFatigue == InitFrameFatigue /\ [][NextFrameFatigue]_vars

(***************************************************************************)
(* Claims on the kick detector.                                            *)
(***************************************************************************)
\* The accepted samples at or above the threshold.
HighSamples == {i \in 1..Len(raw_history) : IsHigh(raw_history[i])}

SpikeLen == Cardinality(HighSamples)

\* The samples at or above the threshold are consecutive.
SingleSpike ==
    \A i, j \in HighSamples : \A k \in i..j : k \in HighSamples

\* C1 as stated: a stream whose kick_height is >= 25 on 15 consecutive accepted
\* frames and < 25 on every other frame leaves exactly one entry in
\* detected_kicks.
C1_SpikeOfFifteenOneKick ==
    (SingleSpike /\ SpikeLen = 15) => Len(detected_kicks) = 1

\* C1 amended: a single spike of L consecutive accepted frames leaves
\* ceil(L / 10) entries in detected_kicks: two for a spike of 15 frames, and
\* exactly one only for a spike of 1 to 10 frames.
C1_SpikeKickCount ==
    /\ SingleSpike => Len(detected_kicks) = (SpikeLen + 9) \div 10
    /\ (SingleSpike /\ SpikeLen = 15) => Len(detected_kicks) = 2
    /\ (SingleSpike /\ SpikeLen \in 1..10) => Len(detected_kicks) = 1

\* A spike of 15 frames between frames below the threshold has been fed.
C1_Witness ==
    /\ SingleSpike /\ SpikeLen = 15 /\ SpikeOver
    /\ ~IsHigh(raw_history[1])
    /\ Len(detected_kicks) = 2

\* The place in metrics_history of the sample a kick was detected on.
SamplePos(kick) ==
    CHOOSE p \in DOMAIN metrics_history : metrics_history[p].frame_idx = kick.frame_idx

\* C2 as stated: after a sample that emits a KickEvent, none of the next 10
\* samples emits one, so two events are more than 10 samples apart.
C2_NoKickOnNextTenSamples ==
    \A i, j \in DOMAIN detected_kicks :
        i < j => SamplePos(detected_kicks[j]) - SamplePos(detected_kicks[i]) > 10

\* A call of analyze_frame that accepts its frame, and one that emits a kick.
Accepted == Len(metrics_history') = Len(metrics_history) + 1

Emitted == detected_kicks' # detected_kicks

\* The event appended is the sample's metrics with the next kick_number.
EventIsCopy ==
    /\ Emitted =>
          /\ Len(detected_kicks') = Len(detected_kicks) + 1
          /\ SubSeq(detected_kicks', 1, Len(detected_kicks)) = detected_kicks
          /\ Last(detected_kicks').frame_idx = Last(metrics_history').frame_idx
          /\ Last(detected_kicks').kick_height = Last(metrics_history').kick_height
    /\ \A k \in DOMAIN detected_kicks' : detected_kicks'[k].kick_number = k

\* C3 as stated: an accepted sample emits a KickEvent exactly when cooldown = 0
\* on arrival and the sample's recorded kick_height is >= 25; the k-th event
\* has kick_number k and is a copy of the sample's metrics.
C3_EmitsIffArmedAndRecordedHigh ==
    [][Accepted =>
          /\ Emitted <=> (cooldown = 0
                          /\ Last(metrics_history').kick_height >= KickThreshold * 10)
          /\ EventIsCopy]_vars

\* C3 amended: an accepted sample emits a KickEvent exactly when cooldown = 0
\* on arrival and the frame's kick height before rounding is >= 25; the k-th
\* event has kick_number k and is a copy of the sample's metrics.
C3_EmitsIffArmedAndHigh ==
    [][Accepted =>
          /\ Emitted <=> (cooldown = 0 /\ IsHigh(Last(raw_history')))
          /\ EventIsCopy]_vars

\* An armed sample recorded as 25.0 emitted nothing, and two events followed.
C3_Witness ==
    /\ Len(detected_kicks) = 2
    /\ detected_kicks[2].kick_number = 2
    /\ ~IsHigh(raw_history[1])
    /\ metrics_history[1].kick_height = KickThreshold * 10
    /\ detected_kicks[1].frame_idx > metrics_history[1].frame_idx

(***************************************************************************)
(* Claims on the training-load engine.                                     *)
(***************************************************************************)
\* The window sums of the last calculate_acwr call.
AcuteSum == acute_load(training_data, calculation_date)

ChronicSum == chronic_load(training_data, calculation_date)

\* v (hundredths) is acute_avg / chronic_avg rounded to 2 decimals: no
\* hundredth is nearer to (a / 7) / (c / 28).
IsRoundedRatio(v, a, c) ==
    2 * Abs(v * c * ACUTE_PERIOD_DAYS - 100 * a * CHRONIC_PERIOD_DAYS)
        <= Abs(c * ACUTE_PERIOD_DAYS)

\* C4: calculate_acwr returns a value on a zero chronic load: 1.0 when both
\* window sums are zero (so on no records at all), 2.0 when the 28-day sum is
\* zero and the 7-day sum is positive; when the 28-day sum is not zero it
\* returns acute_avg / chronic_avg rounded to 2 decimals.
C4_AcwrFallbacks ==
    "calculate_acwr" \in calls =>
        /\ (ChronicSum = 0 /\ AcuteSum = 0) => acwr = 100
        /\ (ChronicSum = 0 /\ AcuteSum > 0) => acwr = 200
        /\ ChronicSum = 0 => acwr \in {100, 200}
        /\ training_data = <<>> => acwr = 100
        /\ ChronicSum # 0 => IsRoundedRatio(acwr, AcuteSum, ChronicSum)

\* calculate_acwr has returned 2.0 on a zero chronic and a positive acute sum.
C4_Witness ==
    /\ "calculate_acwr" \in calls
    /\ ChronicSum = 0 /\ AcuteSum > 0
    /\ acwr = 200

\* The zone of the claim's table that holds a (hundredths), by its label.
ZoneOf(a) ==
    IF a < 80 THEN "Undertrained"
    ELSE IF a < 130 THEN "Optimal Zone"
    ELSE IF a < 150 THEN "Elevated Risk"
    ELSE IF a < 200 THEN "High Risk"
    ELSE "Critical Risk"

BandOf(label) ==
    CASE label = "Optimal Zone" -> 10
      [] label = "Undertrained" -> 30
      [] label = "Elevated Risk" -> 50
      [] label = "High Risk" -> 75
      [] label = "Critical Risk" -> 95

\* C6 as stated: for every ACWR the ACWR-risk term of calculate_combined_risk
\* is the band value of the zone get_risk_level gives the ACWR.
C6_AcwrRiskIsZoneBand ==
    "calculate_combined_risk" \in calls =>
        combined.acwr_risk = BandOf(get_risk_level(acwr).label)

\* The ACWR alerts and the wellness alerts of the last check_alerts.
AlertTypes(rule) == {alerts[i].type : i \in {j \in DOMAIN alerts : alerts[j].rule = rule}}

AlertCount(rule) == Cardinality({j \in DOMAIN alerts : alerts[j].rule = rule})

C8_AcwrAlertsIndependent ==
    "check_alerts" \in calls =>
        /\ acwr >= 150 => "warning" \in AlertTypes("ACWR")
        /\ acwr >= 130 => "caution" \in AlertTypes("ACWR")
        /\ acwr >= 200 => AlertTypes("ACWR") = {"critical", "warning", "caution"}

\* C8 amended: check_alerts emits at most one ACWR alert, the most severe
\* that applies: critical for ACWR >= 2.0, a warning for 1.5 <= ACWR < 2.0,
\* a caution for 1.3 <= ACWR < 1.5, and none below 1.3.
C8_OneAcwrAlertMostSevere ==
    "check_alerts" \in calls =>
        /\ AlertCount("ACWR") <= 1
        /\ acwr >= 200 => AlertTypes("ACWR") = {"critical"}
        /\ (150 <= acwr /\ acwr < 200) => AlertTypes("ACWR") = {"warning"}
        /\ (130 <= acwr /\ acwr < 150) => AlertTypes("ACWR") = {"caution"}
        /\ acwr < 130 => AlertTypes("ACWR") = {}

\* check_alerts has answered an ACWR >= 2.0 with the critical alert alone.
C8_Witness ==
    /\ "check_alerts" \in calls
    /\ acwr >= 200
    /\ AlertTypes("ACWR") = {"critical"}
    /\ AlertCount("ACWR") = 1

\* C9 as stated: check_alerts emits the wellness warning exactly when the
\* wellness score (0-100) is below 50, whatever the ACWR.
C9_WellnessWarningBelowFifty ==
    "check_alerts" \in calls =>
        ("warning" \in AlertTypes("LOW WELLNESS") <=> wellness_score < 500)

\* The inputs a higher value of which is better, and the inverted ones.
HigherIsBetter == {"sleep_quality", "mood", "motivation"}

LowerIsBetter == {"fatigue", "muscle_soreness", "stress"}

\* wellness_entry is wellness_previous.entry with input m alone raised.
RaisedOnly(m) ==
    /\ wellness_entry[m] > wellness_previous.entry[m]
    /\ \A x \in WellnessMetrics \ {m} : wellness_entry[x] = wellness_previous.entry[x]

\* C10: raising sleep_quality, mood or motivation alone never lowers the
\* wellness score, and raising fatigue, muscle_soreness or stress alone
\* never raises it.
C10_WellnessMonotonic ==
    /\ \A m \in HigherIsBetter :
          RaisedOnly(m) => wellness_score >= wellness_previous.score
    /\ \A m \in LowerIsBetter :
          RaisedOnly(m) => wellness_score <= wellness_previous.score

\* A record with fatigue alone raised has been scored lower than the one before.
C10_Witness ==
    /\ RaisedOnly("fatigue")
    /\ wellness_score < wellness_previous.score

(***************************************************************************)
(* Claims on the technique scorer.                                         *)
(***************************************************************************)
\* The last step re-scored a record that differs in the value of key only.
ChangedOnly(key) ==
    /\ DOMAIN score_previous.metrics = DOMAIN score_metrics
    /\ key \in DOMAIN score_metrics
    /\ score_previous.metrics[key] # score_metrics[key]
    /\ \A other \in DOMAIN score_metrics \ {key} :
           score_previous.metrics[other] = score_metrics[other]

\* The knee-extension award as the rubric states it, on an angle in tenths.
KneeAward(knee) ==
    IF knee >= 1600 THEN 25
    ELSE IF knee >= 1400 THEN 20
    ELSE IF knee >= 1200 THEN 15
    ELSE 10

\* The points of the four other bands of a record.
OtherPoints(metrics) ==
    HeightBand(Get(metrics, "kick_height")).points
    + HipBand(Get(metrics, "hip_flexion")).points
    + SupportBand(Get(metrics, "support_knee")).points
    + VisibilityBand(Get(metrics, "visibility")).points

\* C11: the knee-extension award of calculate_score is 25 for a knee angle
\* >= 160, 20 in [140,160), 15 in [120,140) and 10 below 120 (the score is that
\* award plus the points of the other bands), and when only the knee angle of a
\* record decreases the score moves by the difference of the two awards and
\* never goes up.
C11_KneeAwardTiers ==
    /\ DOMAIN score_metrics # {} =>
           score_result.score
               = KneeAward(Get(score_metrics, "knee_angle")) + OtherPoints(score_metrics)
    /\ (ChangedOnly("knee_angle")
            /\ score_metrics.knee_angle < score_previous.metrics.knee_angle) =>
           /\ score_result.score <= score_previous.result.score
           /\ score_previous.result.score - score_result.score
                  = KneeAward(score_previous.metrics.knee_angle)
                    - KneeAward(score_metrics.knee_angle)

\* The knee angle went from 160.0 to 159.9 and the score lost 5 points.
C11_Witness ==
    /\ ChangedOnly("knee_angle")
    /\ score_previous.metrics.knee_angle = 1600
    /\ score_metrics.knee_angle = 1599
    /\ score_result.score = score_previous.result.score - 5

\* The grades from the lowest to the highest.
GradeOrder == <<"D", "C", "C+", "B-", "B", "B+", "A-", "A", "A+">>

GradeRank(g) == CHOOSE i \in 1..Len(GradeOrder) : GradeOrder[i] = g.grade

\* Scores get_grade is asked about, in increasing order: the two sides of every
\* threshold of the table, and the ends of the scale.
GradeScores == <<-1, 0, 1, 54, 55, 59, 60, 64, 65, 69, 70, 74, 75, 79, 80, 84, 85, 89, 90, 91,
                 99, 100, 101>>

\* C12: calculate_score returns the sum of the five band awards and never more
\* than 100; the example record scores 100 and is graded A+; get_grade gives A+
\* to every score >= 90, D to every score < 55, and never a lower grade to a
\* higher score.
C12_ScoreSumAndGrades ==
    /\ DOMAIN score_metrics # {} =>
           /\ score_result.score
                  = KneeBand(Get(score_metrics, "knee_angle")).points
                    + OtherPoints(score_metrics)
           /\ score_result.score <= 100
    /\ score_metrics = ExampleMetrics => (score_result.score = 100 /\ grade.grade = "A+")
    /\ grade = get_grade(score_result.score)
    /\ score_result.score >= 90 => grade.grade = "A+"
    /\ score_result.score < 55 => grade.grade = "D"
    /\ score_previous.result.score <= score_result.score =>
           GradeRank(score_previous.grade) <= GradeRank(grade)
    /\ \A i \in 1..Len(GradeScores) :
           /\ GradeScores[i] >= 90 => get_grade(GradeScores[i]).grade = "A+"
           /\ GradeScores[i] < 55 => get_grade(GradeScores[i]).grade = "D"
           /\ i < Len(GradeScores) =>
                  GradeRank(get_grade(GradeScores[i])) <= GradeRank(get_grade(GradeScores[i + 1]))

\* The example record has been scored after another record, and graded A+; the
\* record before it scored less.
C12_Witness ==
    /\ score_metrics = ExampleMetrics
    /\ score_previous.metrics # score_metrics
    /\ score_previous.result.score < 100
    /\ score_result.score = 100
    /\ grade.grade = "A+"

FeedbackTags == {"success", "info", "warning"}

\* C13 as stated: a non-empty record gets exactly five feedback entries, one
\* for each band, each tagged success, info or warning.
C13_FiveFeedbackEntries ==
    DOMAIN score_metrics # {} =>
        /\ Len(score_result.feedback) = 5
        /\ \A i \in 1..Len(score_result.feedback) : score_result.feedback[i][2] \in FeedbackTags

\* C13: a non-empty record gets exactly four feedback entries, in this order
\* the entry of the knee-extension, kick-height, hip-flexion and support-leg
\* band, each tagged success, info or warning; the visibility band adds points
\* but no entry, so a change of the visibility alone leaves the feedback as it
\* was.
C13_FourFeedbackEntries ==
    /\ DOMAIN score_metrics # {} =>
           /\ Len(score_result.feedback) = 4
           /\ score_result.feedback
                  = KneeBand(Get(score_metrics, "knee_angle")).feedback
                    \o HeightBand(Get(score_metrics, "kick_height")).feedback
                    \o HipBand(Get(score_metrics, "hip_flexion")).feedback
                    \o SupportBand(Get(score_metrics, "support_knee")).feedback
           /\ \A i \in 1..4 : score_result.feedback[i][2] \in FeedbackTags
    /\ ChangedOnly("visibility") => score_result.feedback = score_previous.result.feedback

\* The visibility went from 79.9 to 80.0: three more points, the same four
\* feedback entries.
C13_Witness ==
    /\ ChangedOnly("visibility")
    /\ score_previous.metrics.visibility = 799
    /\ score_metrics.visibility = 800
    /\ score_result.score = score_previous.result.score + 3
    /\ Len(score_result.feedback) = 4
    /\ score_result.feedback = score_previous.result.feedback

(***************************************************************************)
(* Claims on the injury prevention system.                                 *)
(***************************************************************************)
\* The last call analysed the pose for injury risk.
Analysed == risks.frame >= 0

Seen(leg) == {leg \o "_hip", leg \o "_knee", leg \o "_ankle"} \subseteq pose.visible

ValgusOf(leg) == IF leg = "left" THEN pose.left_valgus ELSE pose.right_valgus

KneeAngleOf(leg) == IF leg = "left" THEN pose.left_knee_angle ELSE pose.right_knee_angle

\* The valgus alerts of a leg in the result.
ValgusAlertsOf(leg) ==
    SelectSeq(risks.alerts, LAMBDA a : a.type = "KNEE_VALGUS" /\ a.leg = leg)

\* The tier of the valgus angle of a leg: the severities the rubric gives it.
ValgusTier(leg) ==
    IF ~Seen(leg) THEN <<>>
    ELSE IF Abs(ValgusOf(leg)) > 1500 THEN <<"HIGH">>
    ELSE IF Abs(ValgusOf(leg)) > 1000 THEN <<"MEDIUM">>
    ELSE <<>>

\* No danger pattern but the valgus of the left knee.
NoOtherDanger ==
    /\ ValgusTier("right") = <<>>
    /\ ~({"left_hip", "right_hip"} \subseteq pose.visible) \/ pose.hip_drop <= 1000
    /\ ~({"left_hip", "right_hip", "left_shoulder", "right_shoulder"} \subseteq pose.visible)
       \/ Abs(pose.trunk_lean) <= 3000
    /\ \A leg \in {"left", "right"} : ~Seen(leg) \/ KneeAngleOf(leg) <= 17500

\* C14: a left knee valgus above 15 degrees in absolute value (18 degrees for
\* one) with no other danger pattern gives exactly one alert, KNEE_VALGUS, HIGH,
\* leg left, and a risk score of 40; a leg gets at most one valgus alert, HIGH
\* above 15 degrees and MEDIUM above 10 and up to 15, whatever the other leg
\* shows.
C14_ValgusAlertPerLeg ==
    Analysed =>
        /\ (Seen("left") /\ Abs(pose.left_valgus) > 1500 /\ NoOtherDanger) =>
               /\ Len(risks.alerts) = 1
               /\ risks.alerts[1].type = "KNEE_VALGUS"
               /\ risks.alerts[1].severity = "HIGH"
               /\ risks.alerts[1].leg = "left"
               /\ risks.overall_risk_score = 40
        /\ \A leg \in {"left", "right"} :
               /\ Len(ValgusAlertsOf(leg)) <= 1
               /\ [i \in 1..Len(ValgusAlertsOf(leg)) |-> ValgusAlertsOf(leg)[i].severity]
                      = ValgusTier(leg)

\* A left knee valgus of 18 degrees alone: one HIGH alert and 40 points.
C14_Witness ==
    /\ Analysed
    /\ Seen("left") /\ pose.left_valgus = 1800 /\ NoOtherDanger
    /\ Len(risks.alerts) = 1
    /\ risks.alerts[1].severity = "HIGH"
    /\ risks.overall_risk_score = 40
    /\ alert_history # <<>>

\* What an alert adds to the risk score, by the rubric.
Contribution(alert) ==
    CASE alert.type = "KNEE_VALGUS" /\ alert.severity = "HIGH" -> 40
      [] alert.type = "KNEE_VALGUS" /\ alert.severity = "MEDIUM" -> 20
      [] alert.type = "HIP_DROP" /\ alert.severity = "HIGH" -> 25
      [] alert.type = "HIP_DROP" /\ alert.severity = "MEDIUM" -> 10
      [] alert.type = "TRUNK_LEAN" /\ alert.severity = "HIGH" -> 20
      [] alert.type = "HYPEREXTENSION" /\ alert.severity = "HIGH" -> 30

RECURSIVE Contributions(_, _)
Contributions(emitted, n) ==
    IF n = 0 THEN 0 ELSE Contributions(emitted, n - 1) + Contribution(emitted[n])

RiskSum == Contributions(risks.alerts, Len(risks.alerts))

\* C15: overall_risk_score is min(100, sum of the contributions of the alerts
\* emitted) and lies in [0,100]; risk_level is high exactly when the sum is
\* >= 50, medium exactly when it is in [25,50), low otherwise.
C15_RiskScoreAndLevel ==
    Analysed =>
        /\ risks.overall_risk_score = (IF RiskSum < 100 THEN RiskSum ELSE 100)
        /\ risks.overall_risk_score \in 0..100
        /\ risks.risk_level = "high" <=> RiskSum >= 50
        /\ risks.risk_level = "medium" <=> (RiskSum >= 25 /\ RiskSum < 50)
        /\ risks.risk_level = "low" <=> RiskSum < 25
        /\ risks.risk_level \in {"high", "medium", "low"}

\* Every check fires: a sum of 185 points, a score of 100, a high level.
C15_Witness ==
    /\ Analysed
    /\ RiskSum = 185
    /\ risks.overall_risk_score = 100
    /\ risks.risk_level = "high"

\* A step of analyze_injury_risk.
RiskStep == risks'.frame = system_clock /\ system_clock' = system_clock + 1

\* The alerts of the step are appended in order to alert_history, which no step
\* shortens or rewrites.
AlertsAppended ==
    /\ RiskStep => alert_history' = alert_history \o risks'.alerts
    /\ Len(alert_history) <= Len(alert_history')
    /\ SubSeq(alert_history', 1, Len(alert_history)) = alert_history

\* The number of alerts of a type in the history after the step.
AlertsOfType(t) == Cardinality({i \in 1..Len(alert_history') : alert_history'[i].type = t})

AlertTypesSeen == {alert_history'[i].type : i \in 1..Len(alert_history')}

\* The recommendation that goes with an alert type.
RecommendationFor(t) ==
    CASE t = "KNEE_VALGUS" -> RecKneeValgus
      [] t = "HIP_DROP" -> RecHipDrop
      [] t = "TRUNK_LEAN" -> RecTrunkLean
      [] t = "HYPEREXTENSION" -> RecHyperextension
      [] OTHER -> RecGoodSession

SummaryGiven == session_summary'.total_risk_events >= 0

\* most_common_risk is a type of the largest count in the history.
MostCommonReported ==
    IF AlertTypesSeen = {} THEN session_summary'.most_common_risk = NoRisk
    ELSE /\ session_summary'.most_common_risk \in AlertTypesSeen
         /\ \A t \in AlertTypesSeen :
                AlertsOfType(t) <= AlertsOfType(session_summary'.most_common_risk)

\* C16 as stated: every alert emitted is appended in order to alert_history,
\* which only grows, and the recommendation of get_session_summary is the one
\* of the most frequent alert type, the type reported as most_common_risk.
C16_MostFrequentDrivesRecommendation ==
    [][/\ AlertsAppended
       /\ SummaryGiven =>
              /\ MostCommonReported
              /\ session_summary'.recommendation
                     = RecommendationFor(session_summary'.most_common_risk)]_vars

HighRiskCount ==
    Cardinality({i \in 1..Len(injury_risks') : injury_risks'[i].risk_level = "high"})

\* The recommendation by the order of precedence of the rules.
CascadeRecommendation ==
    IF HighRiskCount > 5 THEN RecHighRisk
    ELSE IF AlertsOfType("KNEE_VALGUS") > 3 THEN RecKneeValgus
    ELSE IF AlertsOfType("HIP_DROP") > 3 THEN RecHipDrop
    ELSE IF AlertsOfType("TRUNK_LEAN") > 0 THEN RecTrunkLean
    ELSE IF AlertsOfType("HYPEREXTENSION") > 0 THEN RecHyperextension
    ELSE IF Len(fatigue_indicators') > 2 THEN RecFatigue
    ELSE RecGoodSession

\* C16: every alert emitted is appended in order to alert_history, which only
\* grows; get_session_summary reports a most frequent alert type as
\* most_common_risk, and takes its recommendation from the first rule that
\* applies: more than 5 high-risk events, more than 3 KNEE_VALGUS alerts, more
\* than 3 HIP_DROP alerts, a TRUNK_LEAN alert, a HYPEREXTENSION alert, more than
\* 2 fatigue events, none of these.
C16_HistoryAndRecommendationRules ==
    [][/\ AlertsAppended
       /\ SummaryGiven =>
              /\ MostCommonReported
              /\ session_summary'.recommendation = CascadeRecommendation]_vars

\* A summary of a session with two KNEE_VALGUS alerts and one HIP_DROP alert:
\* KNEE_VALGUS is the most common risk, and the session is called good.
C16_Witness ==
    /\ session_summary.total_risk_events = 1
    /\ Len(alert_history) = 3
    /\ session_summary.most_common_risk = "KNEE_VALGUS"
    /\ session_summary.recommendation = RecGoodSession

(***************************************************************************)
(* Claims on the fatigue analysis.                                         *)
(***************************************************************************)
\* A step of analyze_fatigue.
FatigueStep == fatigue'.frame = system_clock /\ system_clock' = system_clock + 1

\* The last ten samples of the window after the step, the current one included.
LastTen ==
    LET n == Len(current_metrics_window')
    IN  [i \in 1..(IF n < 10 THEN n ELSE 10) |->
            current_metrics_window'[(IF n < 10 THEN 0 ELSE n - 10) + i]]

\* The values of a key in the last ten samples, and their sum.
ValuesOf(key) ==
    LET at == {i \in 1..Len(LastTen) : key \in DOMAIN LastTen[i]}
    IN  [n \in at |-> LastTen[n][key]]

RECURSIVE SumOver(_, _)
SumOver(f, at) ==
    IF at = {} THEN 0
    ELSE LET i == CHOOSE j \in at : TRUE IN f[i] + SumOver(f, at \ {i})

\* The mean of the values of a key has dropped by more than percent from the
\* baseline value b: mean < b * (100 - percent) / 100.
MeanDropped(key, b, percent) ==
    LET values == ValuesOf(key)
        n == Cardinality(DOMAIN values)
    IN  b > 0 /\ SumOver(values, DOMAIN values) * 100 < (100 - percent) * b * n

\* The support knee angle of the last sample that has one is more than 10
\* degrees below that of the first.
SupportDropped ==
    LET values == ValuesOf("support_knee")
        first == CHOOSE i \in DOMAIN values : \A j \in DOMAIN values : i <= j
        last == CHOOSE i \in DOMAIN values : \A j \in DOMAIN values : j <= i
    IN  DOMAIN values # {} /\ values[last] - values[first] < -100

\* The comparison with the baseline is made: a baseline is set, the window
\* holds ten samples, and the last ten hold a score and a kick height.
Compared ==
    /\ DOMAIN baseline_metrics # {}
    /\ Len(current_metrics_window') >= 10
    /\ DOMAIN ValuesOf("score") # {}
    /\ DOMAIN ValuesOf("kick_height") # {}

BaselineOf(key) == IF key \in DOMAIN baseline_metrics THEN baseline_metrics[key] ELSE 0

\* The cumulative fatigue points of the step.
FatiguePoints ==
    IF ~Compared THEN 0
    ELSE (IF MeanDropped("score", BaselineOf("score"), 15) THEN 30 ELSE 0)
         + (IF MeanDropped("kick_height", BaselineOf("kick_height"), 20) THEN 35 ELSE 0)
         + (IF SupportDropped THEN 25 ELSE 0)

C18_NotReadyReturnsNothing ==
    [][(FatigueStep /\ (DOMAIN baseline_metrics = {} \/ Len(current_metrics_window') < 10)) =>
           /\ fatigue' = [frame |-> system_clock, is_fatigued |-> FALSE, fatigue_level |-> 0,
                          indicators |-> <<>>, recommendation |-> NoRecommendation]
           /\ UNCHANGED <<fatigue_indicators, baseline_metrics, injury_risks, alert_history>>
           /\ Len(current_metrics_window') > 0
           /\ SubSeq(current_metrics_window', 1, Len(current_metrics_window') - 1)
                  = (IF Len(current_metrics_window) < 30 THEN current_metrics_window
                     ELSE Tail(current_metrics_window))]_vars

\* Twelve samples analysed with no baseline, the last ten going from a fresh
\* sample to a tired one: the result says nothing is available.
C18_Witness ==
    /\ DOMAIN baseline_metrics = {}
    /\ Len(current_metrics_window) = 12
    /\ current_metrics_window[3] = FreshSample
    /\ current_metrics_window[12] = TiredSample
    /\ fatigue.frame = 11
    /\ ~fatigue.is_fatigued /\ fatigue.fatigue_level = 0 /\ fatigue.indicators = <<>>
    /\ fatigue_indicators = <<>>

(***************************************************************************)
(* Claims on the kick-type detector.                                       *)
(***************************************************************************)
\* The last call found a kicking leg and went through the signatures.
Scored_ == "kicking_leg" \in DOMAIN kick_result.details

KickTypes == {KickOrder[i] : i \in 1..Len(KickOrder)}

\* C19 as stated: while fewer than 10 foot positions are recorded,
\* detect_kick_type returns a result that says nothing is available yet, with no
\* accepted kick type and no best guess.
C19_NoKickTypeBeforeTenPositions ==
    (kick_landmarks.present /\ Len(frame_history) < 10) =>
        /\ kick_result.kick_type \notin KickTypes
        /\ "best_guess" \notin DOMAIN kick_result.details

\* The sub-scores of a signature on the last frame, in halves.
HipSub(kick_name) ==
    RangeScore(kick_result.details.hip_rotation, KICK_SIGNATURES[kick_name].hip_rotation, 20)

KneeSub(kick_name) ==
    RangeScore(kick_result.details.knee_chamber, KICK_SIGNATURES[kick_name].knee_chamber, 15)

PathSub(kick_name) == PathScore(kick_result.details.foot_path, KICK_SIGNATURES[kick_name])

Match(kick_name) == HipSub(kick_name) + KneeSub(kick_name) + PathSub(kick_name)

\* The signatures of the highest match score.
Winners == {k \in KickTypes : \A other \in KickTypes : Match(other) <= Match(k)}

\* C20: on a frame with a kicking leg every one of the 8 signatures gets the
\* match score (hip + knee + foot-path sub-score) / 3 with sub-scores 0, 0.5 or
\* 1; the confidence is the highest match score and lies in [0,1]; kick_type is
\* a signature of that score exactly when the score is >= 0.65 (then all_scores
\* holds the 8 scores), otherwise kick_type is "unknown" and best_guess names a
\* signature of that score.
C20_BestSignatureAccepted ==
    Scored_ =>
        /\ Cardinality(KickTypes) = 8 /\ DOMAIN KICK_SIGNATURES = KickTypes
        /\ \A k \in KickTypes :
               HipSub(k) \in {0, 1, 2} /\ KneeSub(k) \in {0, 1, 2} /\ PathSub(k) \in {0, 1, 2}
        /\ \A k \in Winners : kick_result.confidence = Match(k)
        /\ kick_result.confidence \in 0..6
        /\ kick_result.kick_type \in KickTypes <=> kick_result.confidence * 100 >= 65 * 6
        /\ kick_result.kick_type \in KickTypes =>
               /\ kick_result.kick_type \in Winners
               /\ kick_result.details.all_scores = [k \in KickTypes |-> Match(k)]
        /\ kick_result.kick_type \notin KickTypes =>
               /\ kick_result.kick_type = "unknown"
               /\ \E k \in Winners : kick_result.details.best_guess = KICK_NAMES[k]

\* Ten positions recorded, a match of 1.5 / 3: the type is unknown and the back
\* kick is the best guess, ahead of the hook kick of the same score.
C20_Witness ==
    /\ Scored_
    /\ Len(frame_history) = 10
    /\ kick_result.confidence = 3
    /\ kick_result.kick_type = "unknown"
    /\ kick_result.details.best_guess = KICK_NAMES["dwi_chagi"]
    /\ {"dwi_chagi", "huryo_chagi"} \subseteq Winners

(***************************************************************************)
(* Claims on the rolling buffers.                                          *)
(***************************************************************************)
\* The most recent min(n, 30) entries of a log of n entries, in insertion order.
MostRecent(log) ==
    IF Len(log) <= 30 THEN log ELSE SubSeq(log, Len(log) - 30 + 1, Len(log))

\* C21: each rolling buffer holds at most 30 entries and exactly the most
\* recent min(n, 30) of the n entries appended, in insertion order:
\* foot_positions under add_position (n counted from the last clear, which
\* empties it), the fatigue window under analyze_fatigue and frame_history
\* under analyze_foot_path.
C21_RollingBuffers ==
    /\ Len(foot_positions) <= 30
    /\ Len(current_metrics_window) <= 30
    /\ Len(frame_history) <= 30
    /\ foot_positions = MostRecent(appended.trajectory)
    /\ current_metrics_window = MostRecent(appended.window)
    /\ frame_history = MostRecent(appended.history)
    /\ appended.trajectory = <<>> => foot_positions = <<>>

\* Each buffer has been given more than 30 entries and has evicted its oldest.
C21_Witness ==
    /\ Len(appended.trajectory) > 30 /\ Len(appended.window) > 30
    /\ Len(appended.history) > 30
    /\ Len(foot_positions) = 30 /\ foot_positions[1] # appended.trajectory[1]
    /\ Len(current_metrics_window) = 30
    /\ current_metrics_window[1] # appended.window[1]
    /\ Len(frame_history) = 30 /\ frame_history[1] # appended.history[1]

(***************************************************************************)
(* Claims on analyze_frame and the landmarks of a frame.                   *)
(***************************************************************************)
\* A keypoint of the frame fed last counts as absent: visibility < 0.5.
AbsentIn(frame, name) == frame[name].visibility < 50

\* Either hip keypoint is absent, or both ankle keypoints are.
Unusable(frame) ==
    \/ AbsentIn(frame, "left_hip") \/ AbsentIn(frame, "right_hip")
    \/ (AbsentIn(frame, "left_ankle") /\ AbsentIn(frame, "right_ankle"))

\* Every hip and ankle keypoint present.
AllKeypoints == [l_hip |-> TRUE, r_hip |-> TRUE, l_ankle |-> TRUE, r_ankle |-> TRUE]

\* The analyzer fed the first n accepted frames alone, under their frame indices.
RECURSIVE AcceptedAlone(_)
AcceptedAlone(n) ==
    IF n = 0 THEN NewAnalyzer
    ELSE analyze_frame(AcceptedAlone(n - 1), AllKeypoints, raw_history[n],
                       metrics_history[n].frame_idx)

\* C22: analyze_frame returns no metrics when either hip keypoint is absent or
\* both ankle keypoints are (visibility < 0.5 counts as absent); such a call
\* leaves cooldown, detected_kicks and metrics_history as they were, and the
\* analyzer is always in the state the accepted frames alone lead to.
C22_RejectedFrameLeavesState ==
    /\ [][Unusable(frame_landmarks') =>
             /\ returned'.none
             /\ UNCHANGED <<cooldown, detected_kicks, metrics_history>>]_vars
    /\ [](LET alone == AcceptedAlone(Len(raw_history))
          IN  /\ cooldown = alone.cooldown
              /\ detected_kicks = alone.detected_kicks
              /\ metrics_history = alone.metrics_history)

\* A frame without ankles was rejected after a kick, and the next frame was
\* analysed.
C22_Witness ==
    /\ rejected = 1
    /\ Len(metrics_history) = 2
    /\ metrics_history[2].frame_idx = metrics_history[1].frame_idx + 2
    /\ Len(detected_kicks) = 1
    /\ ~returned.none

\* The vertical coordinate of a leg in a frame: its foot's, or its ankle's when
\* the foot is absent.
HasLegY(frame, side) == ~AbsentIn(frame, FootOf[side]) \/ ~AbsentIn(frame, AnkleOf[side])

ClaimedLegY(frame, side) ==
    IF ~AbsentIn(frame, FootOf[side]) THEN frame[FootOf[side]].y
    ELSE frame[AnkleOf[side]].y

\* C23 as stated: the leg with the strictly smaller vertical coordinate is the
\* kicking leg and the other the support leg; when the two coordinates are
\* equal the right leg is the support leg and the left leg the kicking leg.
C23_KickingLegAndTie ==
    (~returned.none /\ HasLegY(frame_landmarks, "left") /\ HasLegY(frame_landmarks, "right")) =>
        LET l_y == ClaimedLegY(frame_landmarks, "left")
            r_y == ClaimedLegY(frame_landmarks, "right")
        IN  /\ l_y < r_y => (returned.kicking_leg = "Left" /\ returned.support_leg = "right")
            /\ r_y < l_y => (returned.kicking_leg = "Right" /\ returned.support_leg = "left")
            /\ l_y = r_y => (returned.kicking_leg = "Left" /\ returned.support_leg = "right")

(***************************************************************************)
(* Claims on two analyzers.                                                *)
(***************************************************************************)
\* An analyzer fed the first n frames of a stream and nothing else.
RECURSIVE FedAlone(_, _)
FedAlone(stream, n) ==
    IF n = 0 THEN NewAnalyzer
    ELSE analyze_frame(FedAlone(stream, n - 1), stream[n].landmarks, stream[n].height, n - 1)

\* C24: two TaekwondoAnalyzer objects fed two streams in any interleaving are
\* each in the state, with the kicks, their own stream alone leads to; a call
\* on one object changes nothing of the other.
C24_IndependentInstances ==
    /\ [](\A i \in Instances : analyzers[i] = FedAlone(fed[i], Len(fed[i])))
    /\ [][\A i \in Instances : fed'[i] = fed[i] => analyzers'[i] = analyzers[i]]_vars

\* Both objects were fed three frames; the first detected a kick on its first
\* frame and the second on its last one.
C24_Witness ==
    /\ Len(fed[1]) = 3 /\ Len(fed[2]) = 3
    /\ Len(analyzers[1].detected_kicks) = 1 /\ Len(analyzers[2].detected_kicks) = 1
    /\ analyzers[1].cooldown = 7 /\ analyzers[2].cooldown = 9

(***************************************************************************)
(* Claims on the histories and the cooldown of an analyzer.                *)
(***************************************************************************)
\* new is old, or old with one entry appended.
AppendedAtMostOne(old, new) ==
    /\ Len(new) \in {Len(old), Len(old) + 1}
    /\ SubSeq(new, 1, Len(old)) = old

IncreasingFrames(s) == \A i, j \in DOMAIN s : i < j => s[i].frame_idx < s[j].frame_idx

\* kicks is, by frame_idx, a subsequence of samples.
SubsequenceByFrame(kicks, samples) ==
    \E at \in [DOMAIN kicks -> DOMAIN samples] :
        /\ \A k \in DOMAIN kicks : samples[at[k]].frame_idx = kicks[k].frame_idx
        /\ \A j, k \in DOMAIN kicks : j < k => at[j] < at[k]

\* The place in metrics_history of each kick, when kicks are few.
KickPlaces ==
    {p \in DOMAIN metrics_history :
        \E k \in DOMAIN detected_kicks :
            detected_kicks[k].frame_idx = metrics_history[p].frame_idx}

\* C25: metrics_history and detected_kicks are append-only: a call of
\* analyze_frame leaves their entries in place and appends at most one entry
\* to each; with increasing frame indices both lists are strictly increasing
\* in frame_idx and detected_kicks is a subsequence of metrics_history.
C25_AppendOnlyHistories ==
    /\ [][/\ AppendedAtMostOne(metrics_history, metrics_history')
          /\ AppendedAtMostOne(detected_kicks, detected_kicks')]_vars
    /\ [](/\ IncreasingFrames(metrics_history)
          /\ IncreasingFrames(detected_kicks)
          /\ Cardinality(KickPlaces) = Len(detected_kicks)
          /\ SubsequenceByFrame(detected_kicks, metrics_history))

\* Two kicks lie among eleven samples of a stream with a rejected frame.
C25_Witness ==
    /\ Len(detected_kicks) = 2
    /\ Len(metrics_history) = 11
    /\ rejected = 1
    /\ Last(metrics_history).frame_idx = 11

\* The samples accepted after the one that emitted the last kick.
SinceLastKick ==
    Len(metrics_history)
        - (CHOOSE p \in DOMAIN metrics_history :
              metrics_history[p].frame_idx = Last(detected_kicks).frame_idx)

\* C27: after every call cooldown is within 0..9; it is 9 right after a call
\* that emitted a kick, falls by 1 on each accepted sample that follows until
\* it is 0, and the detector can emit again on the 10th accepted sample after
\* the emitting one and on no earlier one.
C27_CooldownCycle ==
    /\ [](cooldown \in 0..9)
    /\ [][Accepted =>
             /\ Emitted => (cooldown = 0 /\ cooldown' = 9)
             /\ ~Emitted => cooldown' = (IF cooldown > 0 THEN cooldown - 1 ELSE 0)]_vars
    /\ [](detected_kicks # <<>> =>
             /\ SinceLastKick < 9 => cooldown = 9 - SinceLastKick
             /\ SinceLastKick >= 9 => cooldown = 0)
    /\ [](\A j \in DOMAIN detected_kicks :
             j > 1 => detected_kicks[j].kick_number = j
                      /\ SamplePos(detected_kicks[j]) - SamplePos(detected_kicks[j - 1]) >= 10)

\* A second kick was emitted on the 10th accepted sample after the first.
C27_Witness ==
    /\ Len(detected_kicks) = 2
    /\ SamplePos(detected_kicks[2]) - SamplePos(detected_kicks[1]) = 10
    /\ cooldown = 9

(***************************************************************************)
(* Claims on the windows of calculate_acwr.                                *)
(***************************************************************************)
\* The sum of the loads of a set of rows of training_data.
RECURSIVE LoadOfRows(_)
LoadOfRows(rows) ==
    IF rows = {} THEN 0
    ELSE LET r == CHOOSE x \in rows : TRUE
         IN  training_data[r].training_load + LoadOfRows(rows \ {r})

\* The sum of the loads recorded on the n calendar dates ending at date d.
LoadOnDatesEndingAt(d, n) ==
    LoadOfRows({r \in DOMAIN training_data : training_data[r].date \in (d - n + 1)..d})

\* C26: calculate_acwr sums the loads of the 7 calendar dates ending at the
\* evaluation date (that date included, the date 7 days earlier excluded) for
\* the acute window and of the 28 dates ending at it for the chronic window,
\* divides them by 7 and by 28, and ignores every later record.
C26_AcwrWindows ==
    "calculate_acwr" \in calls =>
        LET a == LoadOnDatesEndingAt(calculation_date, 7)
            c == LoadOnDatesEndingAt(calculation_date, 28)
        IN  /\ AcuteSum = a
            /\ ChronicSum = c
            /\ c # 0 => IsRoundedRatio(acwr, a, c)
            /\ c = 0 => acwr = (IF a = 0 THEN 100 ELSE 200)

\* On day 28 a row of day 21 and a row of day 29 were left out of the acute
\* sum, and the row of day 29 out of the chronic sum too: the ACWR is 0.
C26_Witness ==
    /\ "calculate_acwr" \in calls
    /\ calculation_date = 28
    /\ \E r \in DOMAIN training_data :
           training_data[r].date = 21 /\ training_data[r].training_load > 0
    /\ \E r \in DOMAIN training_data :
           training_data[r].date = 29 /\ training_data[r].training_load > 0
    /\ acwr = 0

NonNegativeLoads == \A r \in DOMAIN training_data : training_data[r].training_load >= 0

\* C28: when no load is negative the 7-day sum is at most the 28-day sum, a
\* zero chronic sum comes with a zero acute sum, so calculate_acwr does not
\* return through the 2.0 fallback, and its value lies in [0, 4.0].
C28_NoFallbackOnNonNegativeLoads ==
    ("calculate_acwr" \in calls /\ NonNegativeLoads) =>
        /\ AcuteSum >= 0
        /\ AcuteSum <= ChronicSum
        /\ ChronicSum = 0 => (AcuteSum = 0 /\ acwr = 100)
        /\ 0 <= acwr /\ acwr <= 400

\* Two rows of positive load, both within the last 7 days: the ACWR is 4.0.
C28_Witness ==
    /\ "calculate_acwr" \in calls
    /\ NonNegativeLoads
    /\ Len(training_data) = 2
    /\ AcuteSum = ChronicSum /\ AcuteSum > 0
    /\ acwr = 400

(***************************************************************************)
(* Claims on the wellness score given to check_alerts.                     *)
(***************************************************************************)
WorstEntry == Entry(1, 10, 10, 10, 1, 1)

BestEntry == Entry(10, 1, 1, 1, 10, 10)

\* C29: for inputs in 1..10 calculate_wellness_score returns a value in
\* [10, 100], 10 at the worst inputs and 100 at the best; check_alerts given
\* that score does not emit the low-wellness warning.
C29_ScoreNeverLowEnoughToWarn ==
    "calculate_wellness_score" \in calls =>
        /\ 100 <= wellness_score /\ wellness_score <= 1000
        /\ wellness_entry = WorstEntry => wellness_score = 100
        /\ wellness_entry = BestEntry => wellness_score = 1000
        /\ "check_alerts" \in calls => AlertCount("LOW WELLNESS") = 0

\* The worst record was scored 10.0 and check_alerts raised no wellness warning.
C29_Witness ==
    /\ {"calculate_wellness_score", "check_alerts"} \subseteq calls
    /\ wellness_entry = WorstEntry
    /\ wellness_score = 100
    /\ AlertCount("LOW WELLNESS") = 0
    /\ alerts # <<>>

(***************************************************************************)
(* Claims on the fatigue analysis of frame metrics.                        *)
(***************************************************************************)
\* Every sample analysed has kick_height and support_knee and no score.
FrameShaped ==
    \A i \in DOMAIN current_metrics_window :
        /\ {"kick_height", "support_knee"} \subseteq DOMAIN current_metrics_window[i]
        /\ "score" \notin DOMAIN current_metrics_window[i]

\* C30: fed metrics of the shape analyze_frame produces, for any number of
\* frames and with any baseline, analyze_fatigue never reports fatigue: its
\* result has is_fatigued false, fatigue_level 0 and no indicators, and
\* fatigue_indicators stays empty.
C30_FrameMetricsNeverFatigued ==
    FrameShaped =>
        /\ ~fatigue.is_fatigued
        /\ fatigue.fatigue_level = 0
        /\ fatigue.indicators = <<>>
        /\ fatigue.recommendation = NoRecommendation
        /\ fatigue_indicators = <<>>

\* With a baseline of 50.0 the last ten frames were at 30.0 with the support
\* knee 20 degrees lower, and no fatigue was reported.
C30_Witness ==
    /\ Get(baseline_metrics, "kick_height") = 500
    /\ Len(current_metrics_window) >= 11
    /\ current_metrics_window[1].kick_height = 500
    /\ \A i \in 2..Len(current_metrics_window) : current_metrics_window[i].kick_height = 300
    /\ fatigue.frame = system_clock - 1
    /\ ~fatigue.is_fatigued
    /\ fatigue_indicators = <<>>

====
